---- MODULE Spec2Model ----
\* A model of github.com/bjaus/errx: the Error node and its constructors
\* (New, Newf, Wrap, Wrapf, Ensure, Ensuref), chain traversal (AsType, As,
\* CodeOf, CodeIs, CodeIn), the builder mutators that touch metadata, and the
\* metadata propagation context (WithMetaContext, getCtxMeta).
\*
\* Values.  An `error` interface value is an integer: NilErr (the nil
\* interface), TypedNil (a non-nil interface holding a nil *Error) or the
\* address n >= 1 of an object in the heap objs.  A *Error pointer is NilPtr
\* or the address of an errx node.  Go maps are reference values: a map is an
\* index into the heap maps, so that two holders of one index alias the same
\* mapping.  A context.Context is NilCtx or an index into ctxs.  A message is
\* a sequence of tokens, so that fmt.Sprintf is a computation and not the
\* identity.
EXTENDS Integers, Sequences, FiniteSets, TLC

VARIABLES objs, maps, ctxs, created, tasks, race, last

vars == <<objs, maps, ctxs, created, tasks, race, last>>

-----------------------------------------------------------------------------
\* Bounds of the model

MaxObjs == 3

MaxCtxs == 3

MaxKV == 4

MaxTasks == 2

\* Objects plus fields set on them, where mutators decorate what is built.
MaxSize == 5

-----------------------------------------------------------------------------
\* Program constants and the small input sets

CodeUnknown == 0

CodeNotFound == 4

stackSkipDepth == 4

maxDepth == 32

Codes == {CodeUnknown, CodeNotFound}

\* The names of the ENUM comment in a different order: the first two exchanged.
CodeNamesSwapped ==
  <<"canceled", "unknown", "invalid_argument", "deadline_exceeded", "not_found",
    "already_exists", "permission_denied", "resource_exhausted",
    "failed_precondition", "aborted", "out_of_range", "unimplemented",
    "internal", "unavailable", "data_loss", "unauthenticated">>

\* The names of the ENUM comment of Code, in the order they are declared in; the
\* generator numbers them from 0 in this order.
CodeNames ==
  <<"unknown", "canceled", "invalid_argument", "deadline_exceeded", "not_found",
    "already_exists", "permission_denied", "resource_exhausted",
    "failed_precondition", "aborted", "out_of_range", "unimplemented",
    "internal", "unavailable", "data_loss", "unauthenticated">>

\* type Code uint8: every value a Code can hold.
CodeValues == 0..(2^8 - 1)

\* The generated Code.String(): the name of a declared value, Code(n) otherwise.
CodeString(c) ==
  IF c + 1 \in DOMAIN CodeNames THEN CodeNames[c + 1]
  ELSE "Code(" \o ToString(c) \o ")"

NilErr == 0

TypedNil == 0 - 1

NilPtr == 0

NilCtx == 0

NilMap == 0

Msgs == {<<"m1">>}

Formats == {<<"f", "%v">>}

FormatArgs == {<<"x">>}

CallerStacks == {<<"caller", "main">>}

CodeLists == {<<>>, <<CodeUnknown>>, <<CodeNotFound>>, <<CodeUnknown, CodeNotFound>>}

Shapes == {"errx", "custom"}

\* Values of type any: the strings, which are keys where a key is expected,
\* and a value that is no string.
StrKeys == {"a", "b"}

NonStrKeys == {"#1"}

KeyArgs == StrKeys \cup NonStrKeys

ValArgs == {"a", "#1"}

NoVal == "none"

EmptyMap == [k \in StrKeys |-> NoVal]

\* The variadic arguments of WithMetaContext, in any number: what stands where a
\* key is expected is any of KeyArgs, what stands where a value is, any of ValArgs.
KeyValsOfLen(n) ==
  {kv \in [1..n -> KeyArgs \cup ValArgs] :
     \A i \in 1..n : IF i % 2 = 1 THEN kv[i] \in KeyArgs ELSE kv[i] \in ValArgs}

KeyVals == UNION {KeyValsOfLen(n) : n \in 0..MaxKV}

\* The arguments of the calls that are mixed with the mutators of an error: no
\* argument, a key alone, or one pair.
ShortKeyVals ==
  {<<>>} \cup {<<k>> : k \in KeyArgs} \cup {<<k, v>> : k \in KeyArgs, v \in ValArgs}

\* The arguments of the calls that are interleaved: one pair.
PairKeyVals == {<<k, "#1">> : k \in KeyArgs}

\* One call that supplies a pair under a key that is no string, a pair under a
\* string key and a last key with no value.
DropKeyVals ==
  {<<n, v, k, w, t>> : n \in NonStrKeys, v \in ValArgs, k \in StrKeys,
                       w \in ValArgs, t \in StrKeys}

Debugs == {<<"d">>}

Sources == {"s"}

TagLists == {<<>>, <<"t">>, <<"t", "u">>}

-----------------------------------------------------------------------------
\* fmt.Sprintf: every verb of the format is replaced by the next argument.

RECURSIVE Sprintf(_, _)
Sprintf(format, args) ==
  IF format = <<>> THEN <<>>
  ELSE IF Head(format) = "%v"
       THEN IF args = <<>>
            THEN <<"%!v(MISSING)">> \o Sprintf(Tail(format), args)
            ELSE <<Head(args)>> \o Sprintf(Tail(format), Tail(args))
       ELSE <<Head(format)>> \o Sprintf(Tail(format), args)

-----------------------------------------------------------------------------
\* The heap of error objects

Error(code, message, cause, details, metadata, stackTrace) ==
  [shape |-> "errx", code |-> code, message |-> message, debugMessage |-> <<>>,
   cause |-> cause, source |-> "", tags |-> <<>>, details |-> details,
   metadata |-> metadata, stackTrace |-> stackTrace, retryable |-> FALSE]

\* An error of another package: errors.New (std), a *customError (custom),
\* or fmt.Errorf("...: %w", cause) (wrap, the only one with an Unwrap method).
ForeignError(shape, cause) ==
  [shape |-> shape, code |-> 0, message |-> <<>>, debugMessage |-> <<>>,
   cause |-> cause, source |-> "", tags |-> <<>>, details |-> NilMap,
   metadata |-> NilMap, stackTrace |-> <<>>, retryable |-> FALSE]

ErrValues(h) == {NilErr, TypedNil} \cup (1..Len(h))

PtrValues(h) == {NilPtr} \cup {n \in 1..Len(h) : h[n].shape = "errx"}

\* The conversion of a *Error to an error interface value.
PtrToErr(p) == IF p = NilPtr THEN TypedNil ELSE p

\* runtime.Callers(skip, pcs) on the goroutine's stack, innermost frame first.
Callers(skip, size, stack) ==
  LET avail == IF Len(stack) > skip THEN Len(stack) - skip ELSE 0
      n == IF avail < size THEN avail ELSE size
  IN SubSeq(stack, skip + 1, skip + n)

captureStackTrace(skip, stack) ==
  Callers(skip, maxDepth, <<"runtime.Callers", "errx.captureStackTrace">> \o stack)

\* The result of a call that may allocate: the pointer returned and the heaps
\* of objects and of maps after the call.
Result(ret, h, mp) == [ret |-> ret, objs |-> h, maps |-> mp]

\* newError with one map for both details and metadata.
newErrorOneMap(h, mp, code, message, cause, stack) ==
  Result(Len(h) + 1,
         Append(h, Error(code, message, cause, Len(mp) + 1, Len(mp) + 1,
                         captureStackTrace(stackSkipDepth, <<"errx.newError">> \o stack))),
         mp \o <<EmptyMap>>)

\* newError allocates the node and its two fresh, empty maps.
newError(h, mp, code, message, cause, stack) ==
  Result(Len(h) + 1,
         Append(h, Error(code, message, cause, Len(mp) + 1, Len(mp) + 2,
                         captureStackTrace(stackSkipDepth, <<"errx.newError">> \o stack))),
         mp \o <<EmptyMap, EmptyMap>>)

-----------------------------------------------------------------------------
\* Chain traversal

\* The Unwrap method as errors.As calls it; NilErr when the dynamic type has none.
Unwrap(h, err) ==
  IF err = TypedNil THEN NilErr
  ELSE IF h[err].shape \in {"errx", "wrap"} THEN h[err].cause
  ELSE NilErr

AssignableTo(h, err, E) ==
  IF err = TypedNil THEN E = "errx" ELSE h[err].shape = E

\* A traversal that returns the match deepest in the chain.
RECURSIVE errorsAsDeepest(_, _, _)
errorsAsDeepest(h, err, E) ==
  LET rest == IF Unwrap(h, err) = NilErr THEN [val |-> NilPtr, ok |-> FALSE]
              ELSE errorsAsDeepest(h, Unwrap(h, err), E)
  IN IF rest.ok THEN rest
     ELSE IF AssignableTo(h, err, E)
          THEN [val |-> IF err = TypedNil THEN NilPtr ELSE err, ok |-> TRUE]
          ELSE rest

RECURSIVE errorsAs(_, _, _)
errorsAs(h, err, E) ==
  IF AssignableTo(h, err, E)
  THEN [val |-> IF err = TypedNil THEN NilPtr ELSE err, ok |-> TRUE]
  ELSE IF Unwrap(h, err) = NilErr
       THEN [val |-> NilPtr, ok |-> FALSE]
       ELSE errorsAs(h, Unwrap(h, err), E)

AsType(h, E, err) ==
  IF err = NilErr THEN [val |-> NilPtr, ok |-> FALSE] ELSE errorsAs(h, err, E)

As(h, err) == AsType(h, "errx", err)

IsType(h, E, err) == AsType(h, E, err).ok

\* A field read through a pointer the code does not check panics on NilPtr.
CodeOf(h, err) ==
  LET r == As(h, err)
  IN IF r.ok
     THEN IF r.val = NilPtr THEN [val |-> 0, panic |-> TRUE]
          ELSE [val |-> h[r.val].code, panic |-> FALSE]
     ELSE [val |-> CodeUnknown, panic |-> FALSE]

CodeIs(h, err, code) ==
  LET r == As(h, err)
  IN IF r.ok
     THEN IF r.val = NilPtr THEN [val |-> FALSE, panic |-> TRUE]
          ELSE [val |-> h[r.val].code = code, panic |-> FALSE]
     ELSE [val |-> FALSE, panic |-> FALSE]

CodeIn(h, err, codes) ==
  LET r == As(h, err)
  IN IF ~r.ok THEN [val |-> FALSE, panic |-> FALSE]
     ELSE IF r.val = NilPtr THEN [val |-> FALSE, panic |-> TRUE]
     ELSE [val |-> \E i \in 1..Len(codes) : codes[i] = h[r.val].code, panic |-> FALSE]

-----------------------------------------------------------------------------
\* Constructors, as functions of the heaps

New(h, mp, code, message, stack) ==
  newError(h, mp, code, message, NilErr, <<"errx.New">> \o stack)

Newf(h, mp, code, format, args, stack) ==
  newError(h, mp, code, Sprintf(format, args), NilErr, <<"errx.Newf">> \o stack)

\* Wrap that, given a *Error, reuses it: sets its code, message and cause.
WrapInPlace(h, mp, err, code, message, stack) ==
  IF err = NilErr THEN Result(NilPtr, h, mp)
  ELSE IF err \in 1..Len(h) /\ h[err].shape = "errx"
  THEN Result(err, [h EXCEPT ![err].code = code, ![err].message = message,
                             ![err].cause = err], mp)
  ELSE newError(h, mp, code, message, err, <<"errx.Wrap">> \o stack)

Wrap(h, mp, err, code, message, stack) ==
  IF err = NilErr THEN Result(NilPtr, h, mp)
  ELSE newError(h, mp, code, message, err, <<"errx.Wrap">> \o stack)

Wrapf(h, mp, err, code, format, args, stack) ==
  IF err = NilErr THEN Result(NilPtr, h, mp)
  ELSE newError(h, mp, code, Sprintf(format, args), err, <<"errx.Wrapf">> \o stack)

\* Ensure as Wrap: the chain is not inspected.
EnsureAlwaysWraps(h, mp, err, code, message, stack) ==
  IF err = NilErr THEN Result(NilPtr, h, mp)
  ELSE newError(h, mp, code, message, err, <<"errx.Ensure">> \o stack)

\* Ensure whose fallback node does not keep err as its cause.
EnsureDropsCause(h, mp, err, code, message, stack) ==
  IF err = NilErr THEN Result(NilPtr, h, mp)
  ELSE IF As(h, err).ok THEN Result(As(h, err).val, h, mp)
  ELSE newError(h, mp, code, message, NilErr, <<"errx.Ensure">> \o stack)

\* Ensure that gives the node it found the fallback code.
EnsureRecodes(h, mp, err, code, message, stack) ==
  IF err = NilErr THEN Result(NilPtr, h, mp)
  ELSE IF As(h, err).ok
  THEN Result(As(h, err).val,
              IF As(h, err).val = NilPtr THEN h
              ELSE [h EXCEPT ![As(h, err).val].code = code], mp)
  ELSE newError(h, mp, code, message, err, <<"errx.Ensure">> \o stack)

\* Ensure that looks at err itself only, not at what it wraps.
EnsureOfItself(h, mp, err, code, message, stack) ==
  IF err = NilErr THEN Result(NilPtr, h, mp)
  ELSE IF AssignableTo(h, err, "errx")
  THEN Result(IF err = TypedNil THEN NilPtr ELSE err, h, mp)
  ELSE newError(h, mp, code, message, err, <<"errx.Ensure">> \o stack)

\* Ensure whose fallback goes through Wrap: one more frame below the capture.
EnsureViaWrap(h, mp, err, code, message, stack) ==
  IF err = NilErr THEN Result(NilPtr, h, mp)
  ELSE IF As(h, err).ok THEN Result(As(h, err).val, h, mp)
  ELSE newError(h, mp, code, message, err, <<"errx.Wrap", "errx.Ensure">> \o stack)

Ensure(h, mp, err, code, message, stack) ==
  IF err = NilErr THEN Result(NilPtr, h, mp)
  ELSE IF As(h, err).ok THEN Result(As(h, err).val, h, mp)
  ELSE newError(h, mp, code, message, err, <<"errx.Ensure">> \o stack)

Ensuref(h, mp, err, code, format, args, stack) ==
  IF err = NilErr THEN Result(NilPtr, h, mp)
  ELSE IF As(h, err).ok THEN Result(As(h, err).val, h, mp)
  ELSE newError(h, mp, code, Sprintf(format, args), err, <<"errx.Ensuref">> \o stack)

-----------------------------------------------------------------------------
\* The metadata propagation context

\* context.Background(), and a context made by context.WithValue.
Background == [parent |-> NilCtx, key |-> "none", meta |-> NilMap]

valueCtx(parent, key, meta) == [parent |-> parent, key |-> key, meta |-> meta]

CtxValues(cs) == {NilCtx} \cup (1..Len(cs))

\* ctx.Value(errxCtxKey{}): the nearest value stored under the key, or none.
RECURSIVE Value(_, _)
Value(cs, ctx) ==
  IF cs[ctx].key = "errx" THEN cs[ctx].meta
  ELSE IF cs[ctx].parent = NilCtx THEN NilMap
  ELSE Value(cs, cs[ctx].parent)

getCtxMeta(cs, ctx) == IF ctx = NilCtx THEN NilMap ELSE Value(cs, ctx)

\* What a range over the map, or a lookup in it, sees; a nil map reads as empty.
MapOf(mp, id) == IF id = NilMap THEN EmptyMap ELSE mp[id]

\* merged := existing where there is one: no fresh map for the copy.
makeMergedAlias(mp, existing) ==
  IF existing = NilMap THEN [id |-> Len(mp) + 1, maps |-> Append(mp, EmptyMap)]
  ELSE [id |-> existing, maps |-> mp]

\* merged := make(map[string]any, ...): a fresh map, whatever `existing` is.
makeMerged(mp, existing) == [id |-> Len(mp) + 1, maps |-> Append(mp, EmptyMap)]

\* for k, v := range existing { merged[k] = v }
copyExisting(mp, merged, existing) ==
  [mp EXCEPT ![merged] = [k \in StrKeys |->
      IF MapOf(mp, existing)[k] # NoVal THEN MapOf(mp, existing)[k] ELSE mp[merged][k]]]

\* An iteration that keeps the value a key already has.
applyPairKeepFirst(mp, merged, keyvals, i) ==
  IF keyvals[i] \in StrKeys /\ mp[merged][keyvals[i]] = NoVal
  THEN [mp EXCEPT ![merged][keyvals[i]] = keyvals[i + 1]]
  ELSE mp

\* One iteration of the loop over keyvals, at the (1-based) position i of a key.
applyPair(mp, merged, keyvals, i) ==
  IF keyvals[i] \in StrKeys
  THEN [mp EXCEPT ![merged][keyvals[i]] = keyvals[i + 1]]
  ELSE mp

\* A loop that, at a key that is no string, moves on by one argument only.
RECURSIVE applyPairsShift(_, _, _, _)
applyPairsShift(mp, merged, keyvals, i) ==
  IF i < Len(keyvals)
  THEN applyPairsShift(applyPair(mp, merged, keyvals, i), merged, keyvals,
                       IF keyvals[i] \in StrKeys THEN i + 2 ELSE i + 1)
  ELSE mp

\* for i := 0; i < len(keyvals)-1; i += 2 { ... }, from the position i on.
RECURSIVE applyPairs(_, _, _, _)
applyPairs(mp, merged, keyvals, i) ==
  IF i < Len(keyvals)
  THEN applyPairs(applyPair(mp, merged, keyvals, i), merged, keyvals, i + 2)
  ELSE mp

\* WithMetaContext that applies the pairs to the map of the parent itself.
WithMetaContextInPlace(cs, mp, ctx, keyvals) ==
  LET existing == getCtxMeta(cs, ctx)
      made == makeMergedAlias(mp, existing)
      final == applyPairs(made.maps, made.id, keyvals, 1)
  IN IF ctx = NilCtx
     THEN [ret |-> NilCtx, ctxs |-> cs, maps |-> mp, panic |-> TRUE]
     ELSE [ret |-> Len(cs) + 1, ctxs |-> Append(cs, valueCtx(ctx, "errx", made.id)),
           maps |-> final, panic |-> FALSE]

\* WithMetaContext as one step.  context.WithValue panics on a nil parent; the
\* map made before the panic is garbage and is left out of the heap.
WithMetaContext(cs, mp, ctx, keyvals) ==
  LET existing == getCtxMeta(cs, ctx)
      made == makeMerged(mp, existing)
      copied == copyExisting(made.maps, made.id, existing)
      final == applyPairs(copied, made.id, keyvals, 1)
  IN IF ctx = NilCtx
     THEN [ret |-> NilCtx, ctxs |-> cs, maps |-> mp, panic |-> TRUE]
     ELSE [ret |-> Len(cs) + 1, ctxs |-> Append(cs, valueCtx(ctx, "errx", made.id)),
           maps |-> final, panic |-> FALSE]

-----------------------------------------------------------------------------
\* The mutators of an error that write its metadata

WithMeta(h, mp, recv, key, value) ==
  IF recv = NilPtr THEN [ret |-> NilPtr, maps |-> mp]
  ELSE [ret |-> recv, maps |-> [mp EXCEPT ![h[recv].metadata][key] = value]]

\* A merge that keeps the metadata the error already has.
WithMetaFromContextKeepsExisting(h, mp, cs, recv, ctx) ==
  IF recv = NilPtr THEN [ret |-> NilPtr, maps |-> mp]
  ELSE LET src == MapOf(mp, getCtxMeta(cs, ctx))
           id == h[recv].metadata
       IN [ret |-> recv,
           maps |-> [mp EXCEPT ![id] = [k \in StrKeys |->
                       IF mp[id][k] # NoVal THEN mp[id][k] ELSE src[k]]]]

WithMetaFromContext(h, mp, cs, recv, ctx) ==
  IF recv = NilPtr THEN [ret |-> NilPtr, maps |-> mp]
  ELSE LET src == MapOf(mp, getCtxMeta(cs, ctx))
           id == h[recv].metadata
       IN [ret |-> recv,
           maps |-> [mp EXCEPT ![id] = [k \in StrKeys |->
                       IF src[k] # NoVal THEN src[k] ELSE mp[id][k]]]]

\* The other mutators: each checks the receiver, writes one field through the
\* pointer and returns the receiver.
\* An insert that keeps the value a key already has.
WithDetailKeepsFirst(h, mp, recv, key, value) ==
  IF recv = NilPtr THEN Result(NilPtr, h, mp)
  ELSE IF mp[h[recv].details][key] # NoVal THEN Result(recv, h, mp)
  ELSE Result(recv, h, [mp EXCEPT ![h[recv].details][key] = value])

WithDetail(h, mp, recv, key, value) ==
  IF recv = NilPtr THEN Result(NilPtr, h, mp)
  ELSE Result(recv, h, [mp EXCEPT ![h[recv].details][key] = value])

\* WithDebug that writes the client message as well.
WithDebugSetsMessage(h, mp, recv, message) ==
  IF recv = NilPtr THEN Result(NilPtr, h, mp)
  ELSE Result(recv, [h EXCEPT ![recv].debugMessage = message, ![recv].message = message],
              mp)

WithDebug(h, mp, recv, message) ==
  IF recv = NilPtr THEN Result(NilPtr, h, mp)
  ELSE Result(recv, [h EXCEPT ![recv].debugMessage = message], mp)

WithDebugf(h, mp, recv, format, args) == WithDebug(h, mp, recv, Sprintf(format, args))

\* WithSource that makes an error for a nil receiver.
WithSourceAllocates(h, mp, recv, source) ==
  IF recv = NilPtr
  THEN Result(Len(h) + 1,
              Append(h, [Error(CodeUnknown, <<>>, NilErr, NilMap, NilMap, <<>>)
                           EXCEPT !.source = source]),
              mp)
  ELSE Result(recv, [h EXCEPT ![recv].source = source], mp)

WithSource(h, mp, recv, source) ==
  IF recv = NilPtr THEN Result(NilPtr, h, mp)
  ELSE Result(recv, [h EXCEPT ![recv].source = source], mp)

\* e.tags = tags
WithTagsReplaces(h, mp, recv, tags) ==
  IF recv = NilPtr THEN Result(NilPtr, h, mp)
  ELSE Result(recv, [h EXCEPT ![recv].tags = tags], mp)

\* e.tags = append(e.tags, tags...)
WithTags(h, mp, recv, tags) ==
  IF recv = NilPtr THEN Result(NilPtr, h, mp)
  ELSE Result(recv, [h EXCEPT ![recv].tags = h[recv].tags \o tags], mp)

\* e.retryable = !e.retryable
WithRetryableToggles(h, mp, recv) ==
  IF recv = NilPtr THEN Result(NilPtr, h, mp)
  ELSE Result(recv, [h EXCEPT ![recv].retryable = ~h[recv].retryable], mp)

WithRetryable(h, mp, recv) ==
  IF recv = NilPtr THEN Result(NilPtr, h, mp)
  ELSE Result(recv, [h EXCEPT ![recv].retryable = TRUE], mp)

-----------------------------------------------------------------------------
\* The readers.  A string is a sequence of tokens, "" the empty sequence; a nil
\* slice is the empty sequence and a nil map is NilMap.

Code(h, e) == IF e = NilPtr THEN CodeUnknown ELSE h[e].code

\* The method Error().
ErrorMessage(h, e) == IF e = NilPtr THEN <<>> ELSE h[e].message

\* The method Unwrap() on a *Error.
ErrorUnwrap(h, e) == IF e = NilPtr THEN NilErr ELSE h[e].cause

Source(h, e) == IF e = NilPtr THEN "" ELSE h[e].source

Tags(h, e) == IF e = NilPtr THEN <<>> ELSE h[e].tags

Details(h, e) == IF e = NilPtr THEN NilMap ELSE h[e].details

Metadata(h, e) == IF e = NilPtr THEN NilMap ELSE h[e].metadata

StackTrace(h, e) == IF e = NilPtr THEN <<>> ELSE h[e].stackTrace

\* The method IsRetryable().
ErrorIsRetryable(h, e) == IF e = NilPtr THEN FALSE ELSE h[e].retryable

\* One line per frame of the stack, joined.
FormatStackTrace(h, e) ==
  IF e = NilPtr \/ Len(h[e].stackTrace) = 0 THEN <<>>
  ELSE [i \in 1..Len(h[e].stackTrace) |-> <<h[e].stackTrace[i], "file:line">>]

\* len(m) of a map.
MapLen(mp, id) == Cardinality({k \in StrKeys : MapOf(mp, id)[k] # NoVal})

\* err.Error() of a non-nil error value: the message of a *Error (empty for a
\* nil *Error), the text of an error of another package, and for
\* fmt.Errorf("outer: %w", cause) the text with the cause's message in it.
RECURSIVE ErrorString(_, _)
ErrorString(h, err) ==
  IF err = TypedNil THEN <<>>
  ELSE IF h[err].shape = "errx" THEN ErrorMessage(h, err)
  ELSE IF h[err].shape = "wrap" THEN <<"outer: ">> \o ErrorString(h, h[err].cause)
  ELSE <<h[err].shape>>

\* strings.Join
RECURSIVE Join(_, _)
Join(parts, sep) ==
  IF parts = <<>> THEN <<>>
  ELSE IF Len(parts) = 1 THEN Head(parts)
  ELSE Head(parts) \o <<sep>> \o Join(Tail(parts), sep)

\* The verb %v of a []string: the elements between brackets.
FormatSlice(tags) == <<"[">> \o Join([i \in 1..Len(tags) |-> <<tags[i]>>], " ") \o <<"]">>

\* The keys in the order fmt prints a map in.
SortedKeys == <<"a", "b">>

RECURSIVE FormatEntries(_, _)
FormatEntries(m, ks) ==
  IF ks = <<>> THEN <<>>
  ELSE IF m[Head(ks)] = NoVal THEN FormatEntries(m, Tail(ks))
  ELSE LET rest == FormatEntries(m, Tail(ks))
       IN <<Head(ks), ":", m[Head(ks)]>> \o (IF rest = <<>> THEN <<>> ELSE <<" ">> \o rest)

\* The verb %v of a map[string]any.
FormatMap(m) == <<"map[">> \o FormatEntries(m, SortedKeys) \o <<"]">>

\* The parts with the debug message in them whenever it is set.
PartsDebugWhenEqual(h, mp, e) ==
  <<<<"[", CodeString(h[e].code), "] ">> \o h[e].message>>
  \o (IF h[e].source # "" THEN <<<<"source=", h[e].source>>>> ELSE <<>>)
  \o (IF Len(h[e].tags) > 0 THEN <<<<"tags=">> \o FormatSlice(h[e].tags)>> ELSE <<>>)
  \o (IF MapLen(mp, h[e].details) > 0
      THEN <<<<"details=">> \o FormatMap(MapOf(mp, h[e].details))>> ELSE <<>>)
  \o (IF MapLen(mp, h[e].metadata) > 0
      THEN <<<<"metadata=">> \o FormatMap(MapOf(mp, h[e].metadata))>> ELSE <<>>)
  \o (IF h[e].retryable THEN <<<<"retryable", "=true">>>> ELSE <<>>)
  \o (IF h[e].debugMessage # <<>>
      THEN <<<<"debug=">> \o h[e].debugMessage>> ELSE <<>>)
  \o (IF h[e].cause # NilErr
      THEN <<<<"cause=">> \o ErrorString(h, h[e].cause)>> ELSE <<>>)

\* The parts with a source in them even when there is none.
PartsEmptySource(h, mp, e) ==
  <<<<"[", CodeString(h[e].code), "] ">> \o h[e].message>>
  \o <<<<"source=", h[e].source>>>>
  \o (IF Len(h[e].tags) > 0 THEN <<<<"tags=">> \o FormatSlice(h[e].tags)>> ELSE <<>>)
  \o (IF MapLen(mp, h[e].details) > 0
      THEN <<<<"details=">> \o FormatMap(MapOf(mp, h[e].details))>> ELSE <<>>)
  \o (IF MapLen(mp, h[e].metadata) > 0
      THEN <<<<"metadata=">> \o FormatMap(MapOf(mp, h[e].metadata))>> ELSE <<>>)
  \o (IF h[e].retryable THEN <<<<"retryable", "=true">>>> ELSE <<>>)
  \o (IF h[e].debugMessage # <<>> /\ h[e].debugMessage # h[e].message
      THEN <<<<"debug=">> \o h[e].debugMessage>> ELSE <<>>)
  \o (IF h[e].cause # NilErr
      THEN <<<<"cause=">> \o ErrorString(h, h[e].cause)>> ELSE <<>>)

\* The parts that DebugMessage joins, each a string: code and message always,
\* every other field only when it is set.  A string is cut into tokens where
\* a reader of the message looks for a substring.
Parts(h, mp, e) ==
  <<<<"[", CodeString(h[e].code), "] ">> \o h[e].message>>
  \o (IF h[e].source # "" THEN <<<<"source=", h[e].source>>>> ELSE <<>>)
  \o (IF Len(h[e].tags) > 0 THEN <<<<"tags=">> \o FormatSlice(h[e].tags)>> ELSE <<>>)
  \o (IF MapLen(mp, h[e].details) > 0
      THEN <<<<"details=">> \o FormatMap(MapOf(mp, h[e].details))>> ELSE <<>>)
  \o (IF MapLen(mp, h[e].metadata) > 0
      THEN <<<<"metadata=">> \o FormatMap(MapOf(mp, h[e].metadata))>> ELSE <<>>)
  \o (IF h[e].retryable THEN <<<<"retryable", "=true">>>> ELSE <<>>)
  \o (IF h[e].debugMessage # <<>> /\ h[e].debugMessage # h[e].message
      THEN <<<<"debug=">> \o h[e].debugMessage>> ELSE <<>>)
  \o (IF h[e].cause # NilErr
      THEN <<<<"cause=">> \o ErrorString(h, h[e].cause)>> ELSE <<>>)

DebugMessage(h, mp, e) == IF e = NilPtr THEN <<>> ELSE Join(Parts(h, mp, e), " | ")

\* slog.String, slog.Bool and slog.Any: a value with its kind; a value of kind
\* Any also has the dynamic type of what it holds.
StringValue(v) == [kind |-> "String", type |-> "string", val |-> v]

BoolValue(v) == [kind |-> "Bool", type |-> "bool", val |-> v]

AnyValue(type, v) == [kind |-> "Any", type |-> type, val |-> v]

\* The attributes with the cause as the string of its message.
AttrsCauseAsString(h, mp, e) ==
  <<<<"code", StringValue(CodeString(h[e].code))>>,
    <<"message", StringValue(h[e].message)>>>>
  \o (IF h[e].source # "" THEN <<<<"source", StringValue(h[e].source)>>>> ELSE <<>>)
  \o (IF Len(h[e].tags) > 0
      THEN <<<<"tags", AnyValue("[]string", h[e].tags)>>>> ELSE <<>>)
  \o (IF MapLen(mp, h[e].details) > 0
      THEN <<<<"details", AnyValue("map", MapOf(mp, h[e].details))>>>> ELSE <<>>)
  \o (IF MapLen(mp, h[e].metadata) > 0
      THEN <<<<"metadata", AnyValue("map", MapOf(mp, h[e].metadata))>>>> ELSE <<>>)
  \o (IF h[e].retryable THEN <<<<"retryable", BoolValue(TRUE)>>>> ELSE <<>>)
  \o (IF h[e].debugMessage # <<>> /\ h[e].debugMessage # h[e].message
      THEN <<<<"debug", StringValue(h[e].debugMessage)>>>> ELSE <<>>)
  \o (IF h[e].cause # NilErr
      THEN <<<<"cause", StringValue(ErrorString(h, h[e].cause))>>>> ELSE <<>>)

\* The attributes that LogValue groups: code and message always, every other
\* field only when it is set.
Attrs(h, mp, e) ==
  <<<<"code", StringValue(CodeString(h[e].code))>>,
    <<"message", StringValue(h[e].message)>>>>
  \o (IF h[e].source # "" THEN <<<<"source", StringValue(h[e].source)>>>> ELSE <<>>)
  \o (IF Len(h[e].tags) > 0
      THEN <<<<"tags", AnyValue("[]string", h[e].tags)>>>> ELSE <<>>)
  \o (IF MapLen(mp, h[e].details) > 0
      THEN <<<<"details", AnyValue("map", MapOf(mp, h[e].details))>>>> ELSE <<>>)
  \o (IF MapLen(mp, h[e].metadata) > 0
      THEN <<<<"metadata", AnyValue("map", MapOf(mp, h[e].metadata))>>>> ELSE <<>>)
  \o (IF h[e].retryable THEN <<<<"retryable", BoolValue(TRUE)>>>> ELSE <<>>)
  \o (IF h[e].debugMessage # <<>> /\ h[e].debugMessage # h[e].message
      THEN <<<<"debug", StringValue(h[e].debugMessage)>>>> ELSE <<>>)
  \o (IF h[e].cause # NilErr
      THEN <<<<"cause", AnyValue("error", h[e].cause)>>>> ELSE <<>>)

\* A group for every receiver, the empty group for nil.
LogValueAlwaysGroup(h, mp, e) ==
  IF e = NilPtr THEN [kind |-> "Group", attrs |-> <<>>]
  ELSE [kind |-> "Group", attrs |-> Attrs(h, mp, e)]

\* slog.Value{} for nil, slog.GroupValue(attrs...) otherwise.
LogValue(h, mp, e) ==
  IF e = NilPtr THEN [kind |-> "Any", attrs |-> <<>>]
  ELSE [kind |-> "Group", attrs |-> Attrs(h, mp, e)]

\* What a slog handler makes of a value before it writes it: a value that
\* holds a LogValuer, which a *Error is and an error of another package is
\* not, is replaced by its LogValue(), and so are the values inside a group.
RECURSIVE Resolve(_, _, _)
Resolve(h, mp, v) ==
  IF v.kind = "Group"
  THEN [kind |-> "Group",
        attrs |-> [i \in 1..Len(v.attrs) |->
                     <<v.attrs[i][1], Resolve(h, mp, v.attrs[i][2])>>]]
  ELSE IF "type" \in DOMAIN v /\ v.type = "error"
          /\ (v.val = TypedNil \/ h[v.val].shape = "errx")
  THEN Resolve(h, mp, LogValue(h, mp, IF v.val = TypedNil THEN NilPtr ELSE v.val))
  ELSE v

\* A comparison of code and message.
ErrorIsSameMessage(h, e, target) ==
  IF e = NilPtr THEN [val |-> target = NilErr, panic |-> FALSE]
  ELSE IF target = NilErr THEN [val |-> FALSE, panic |-> FALSE]
  ELSE IF target = TypedNil THEN [val |-> FALSE, panic |-> TRUE]
  ELSE IF h[target].shape # "errx" THEN [val |-> FALSE, panic |-> FALSE]
  ELSE [val |-> h[e].code = h[target].code /\ h[e].message = h[target].message,
        panic |-> FALSE]

\* The method Is(target).  target.(*Error) succeeds for every interface value
\* that holds a *Error, the nil pointer included, and t.code is then read.
ErrorIs(h, e, target) ==
  IF e = NilPtr THEN [val |-> target = NilErr, panic |-> FALSE]
  ELSE IF target = NilErr THEN [val |-> FALSE, panic |-> FALSE]
  ELSE IF target = TypedNil THEN [val |-> FALSE, panic |-> TRUE]
  ELSE IF h[target].shape # "errx" THEN [val |-> FALSE, panic |-> FALSE]
  ELSE [val |-> h[e].code = h[target].code, panic |-> FALSE]

\* True when any *Error of the chain is retryable.
RECURSIVE IsRetryableAnywhere(_, _)
IsRetryableAnywhere(h, err) ==
  IF err \in {NilErr, TypedNil} THEN FALSE
  ELSE (h[err].shape = "errx" /\ h[err].retryable)
       \/ IsRetryableAnywhere(h, Unwrap(h, err))

\* The function IsRetryable(err).
IsRetryable(h, err) ==
  IF ~As(h, err).ok THEN FALSE ELSE ErrorIsRetryable(h, As(h, err).val)

-----------------------------------------------------------------------------
\* The record of the last call: its name, its arguments, what it returned and
\* the heaps as they were when it was made.

NoCall ==
  [op |-> "none", err |-> NilErr, code |-> 0, msg |-> <<>>, format |-> <<>>,
   args |-> <<>>, shape |-> "",
   codes |-> <<>>, ctx |-> NilCtx, keyvals |-> <<>>, recv |-> NilPtr,
   key |-> "", val |-> "", tags |-> <<>>, ret |-> 0, ok |-> FALSE, out |-> <<>>,
   panic |-> FALSE,
   preObjs |-> <<>>, preMaps |-> <<>>]

Called(op) == [NoCall EXCEPT !.op = op, !.preObjs = objs, !.preMaps = maps]

\* A constructor call: the heaps become those of its result r.
Construct(r, call) ==
  /\ Len(r.objs) <= MaxObjs
  /\ objs' = r.objs
  /\ maps' = r.maps
  /\ last' = [call EXCEPT !.ret = r.ret]
  /\ UNCHANGED <<ctxs, created, tasks, race>>

\* A call that only reads.
Query(call) ==
  /\ last' = call
  /\ UNCHANGED <<objs, maps, ctxs, created, tasks, race>>

CallNew(code, message, stack) ==
  Construct(New(objs, maps, code, message, stack),
            [Called("New") EXCEPT !.code = code, !.msg = message])

CallNewf(code, format, args, stack) ==
  Construct(Newf(objs, maps, code, format, args, stack),
            [Called("Newf") EXCEPT !.code = code, !.format = format, !.args = args])

CallWrap(err, code, message, stack) ==
  Construct(Wrap(objs, maps, err, code, message, stack),
            [Called("Wrap") EXCEPT !.err = err, !.code = code, !.msg = message])

CallWrapf(err, code, format, args, stack) ==
  Construct(Wrapf(objs, maps, err, code, format, args, stack),
            [Called("Wrapf") EXCEPT !.err = err, !.code = code, !.format = format,
                                    !.args = args])

CallEnsure(err, code, message, stack) ==
  Construct(Ensure(objs, maps, err, code, message, stack),
            [Called("Ensure") EXCEPT !.err = err, !.code = code, !.msg = message])

CallEnsuref(err, code, format, args, stack) ==
  Construct(Ensuref(objs, maps, err, code, format, args, stack),
            [Called("Ensuref") EXCEPT !.err = err, !.code = code, !.format = format,
                                      !.args = args])

\* Ensure at two boundaries, one after the other: the second is given what
\* the first returned, a *Error, as an error.
CallEnsureTwice(err, code1, code2, message, stack) ==
  LET r1 == Ensure(objs, maps, err, code1, message, stack)
      r2 == Ensure(r1.objs, r1.maps, PtrToErr(r1.ret), code2, message, stack)
  IN Construct(r2, [Called("Ensure.Ensure") EXCEPT
                      !.err = err, !.code = code1, !.codes = <<code1, code2>>,
                      !.msg = message,
                      !.out = [ret |-> r1.ret, objs |-> r1.objs, maps |-> r1.maps]])

\* Errors of other packages, as the callers of the library make them.
ErrorsNew(shape) ==
  Construct(Result(Len(objs) + 1, Append(objs, ForeignError(shape, NilErr)), maps),
            [Called("errors.New") EXCEPT !.shape = shape])

FmtErrorf(err) ==
  /\ err # NilErr
  /\ Construct(Result(Len(objs) + 1, Append(objs, ForeignError("wrap", err)), maps),
               [Called("fmt.Errorf") EXCEPT !.err = err])

CallAsType(E, err) ==
  Query([Called("AsType") EXCEPT !.shape = E, !.err = err,
                                 !.ret = AsType(objs, E, err).val,
                                 !.ok = AsType(objs, E, err).ok])

CallCodeOf(err) ==
  Query([Called("CodeOf") EXCEPT !.err = err, !.ret = CodeOf(objs, err).val,
                                 !.panic = CodeOf(objs, err).panic])

CallCodeIs(err, code) ==
  Query([Called("CodeIs") EXCEPT !.err = err, !.code = code,
                                 !.ok = CodeIs(objs, err, code).val,
                                 !.panic = CodeIs(objs, err, code).panic])

CallCodeIn(err, codes) ==
  Query([Called("CodeIn") EXCEPT !.err = err, !.codes = codes,
                                 !.ok = CodeIn(objs, err, codes).val,
                                 !.panic = CodeIn(objs, err, codes).panic])

-----------------------------------------------------------------------------
\* Calls on contexts and on the metadata of errors

CallWithMetaContext(ctx, keyvals) ==
  LET r == WithMetaContext(ctxs, maps, ctx, keyvals)
  IN /\ (ctx = NilCtx \/ Len(ctxs) < MaxCtxs)
     /\ ctxs' = r.ctxs
     /\ maps' = r.maps
     /\ created' = IF r.panic THEN created
                   ELSE Append(created, MapOf(r.maps, getCtxMeta(r.ctxs, r.ret)))
     /\ last' = [Called("WithMetaContext") EXCEPT !.ctx = ctx, !.keyvals = keyvals,
                                                  !.ret = r.ret, !.panic = r.panic]
     /\ UNCHANGED <<objs, tasks, race>>

\* context.WithValue under the key of another package.
ContextWithValue(ctx) ==
  /\ ctx # NilCtx
  /\ Len(ctxs) < MaxCtxs
  /\ ctxs' = Append(ctxs, valueCtx(ctx, "other", NilMap))
  /\ created' = Append(created, MapOf(maps, getCtxMeta(ctxs, ctx)))
  /\ last' = [Called("context.WithValue") EXCEPT !.ctx = ctx, !.ret = Len(ctxs) + 1]
  /\ UNCHANGED <<objs, maps, tasks, race>>

CallWithMeta(recv, key, value) ==
  LET r == WithMeta(objs, maps, recv, key, value)
  IN /\ maps' = r.maps
     /\ last' = [Called("WithMeta") EXCEPT !.recv = recv, !.key = key, !.val = value,
                                           !.ret = r.ret]
     /\ UNCHANGED <<objs, ctxs, created, tasks, race>>

CallWithMetaFromContext(recv, ctx) ==
  LET r == WithMetaFromContext(objs, maps, ctxs, recv, ctx)
  IN /\ maps' = r.maps
     /\ last' = [Called("WithMetaFromContext") EXCEPT !.recv = recv, !.ctx = ctx,
                                                      !.ret = r.ret]
     /\ UNCHANGED <<objs, ctxs, created, tasks, race>>

-----------------------------------------------------------------------------
\* Calls of the other mutators, of the readers and of the comparisons

\* A mutator call: the heaps become those of its result r.
Mutate(r, call) ==
  /\ objs' = r.objs
  /\ maps' = r.maps
  /\ last' = [call EXCEPT !.ret = r.ret]
  /\ UNCHANGED <<ctxs, created, tasks, race>>

CallWithDetail(recv, key, value) ==
  Mutate(WithDetail(objs, maps, recv, key, value),
         [Called("WithDetail") EXCEPT !.recv = recv, !.key = key, !.val = value])

CallWithDebug(recv, message) ==
  Mutate(WithDebug(objs, maps, recv, message),
         [Called("WithDebug") EXCEPT !.recv = recv, !.msg = message])

CallWithDebugf(recv, format, args) ==
  Mutate(WithDebugf(objs, maps, recv, format, args),
         [Called("WithDebugf") EXCEPT !.recv = recv, !.format = format, !.args = args])

CallWithSource(recv, source) ==
  Mutate(WithSource(objs, maps, recv, source),
         [Called("WithSource") EXCEPT !.recv = recv, !.key = source])

CallWithTags(recv, tags) ==
  Mutate(WithTags(objs, maps, recv, tags),
         [Called("WithTags") EXCEPT !.recv = recv, !.tags = tags])

CallWithRetryable(recv) ==
  Mutate(WithRetryable(objs, maps, recv), [Called("WithRetryable") EXCEPT !.recv = recv])

\* A reader call: out is what the reader returned.
Read(op, recv, out) == Query([Called(op) EXCEPT !.recv = recv, !.out = out])

CallCode(recv) == Read("Code", recv, Code(objs, recv))

CallError(recv) == Read("Error", recv, ErrorMessage(objs, recv))

CallUnwrap(recv) == Read("Unwrap", recv, ErrorUnwrap(objs, recv))

CallDebugMessage(recv) == Read("DebugMessage", recv, DebugMessage(objs, maps, recv))

CallSource(recv) == Read("Source", recv, Source(objs, recv))

CallTags(recv) == Read("Tags", recv, Tags(objs, recv))

CallDetails(recv) == Read("Details", recv, Details(objs, recv))

CallMetadata(recv) == Read("Metadata", recv, Metadata(objs, recv))

CallStackTrace(recv) == Read("StackTrace", recv, StackTrace(objs, recv))

CallErrorIsRetryable(recv) ==
  Read("Error.IsRetryable", recv, ErrorIsRetryable(objs, recv))

CallFormatStackTrace(recv) ==
  Read("FormatStackTrace", recv, FormatStackTrace(objs, recv))

CallLogValue(recv) == Read("LogValue", recv, LogValue(objs, maps, recv))

\* logger.Error("...", "error", err) with a *Error: what the handler writes
\* for the attribute, after it resolved the value.
CallLog(recv) ==
  Read("slog", recv, Resolve(objs, maps, AnyValue("error", PtrToErr(recv))))

\* code.String() of any value of the type.
CallString(code) ==
  Query([Called("Code.String") EXCEPT !.code = code, !.out = CodeString(code)])

CallErrorIs(recv, target) ==
  Query([Called("Error.Is") EXCEPT !.recv = recv, !.err = target,
                                   !.ok = ErrorIs(objs, recv, target).val,
                                   !.panic = ErrorIs(objs, recv, target).panic])

CallIsRetryable(err) ==
  Query([Called("IsRetryable") EXCEPT !.err = err, !.ok = IsRetryable(objs, err)])

-----------------------------------------------------------------------------
\* WithMetaContext step by step, one call per task, the tasks interleaved

IdleTask ==
  [pc |-> "idle", ctx |-> NilCtx, keyvals |-> <<>>, existing |-> NilMap,
   merged |-> NilMap, i |-> 0, ret |-> NilCtx]

Running(t) == tasks[t].pc \in {"make", "copy", "pairs", "return"}

\* Another task, or any reader of a context, can reach the map m.
Shared(m, t) ==
  \/ \E c \in 1..Len(ctxs) : ctxs[c].meta = m
  \/ \E u \in DOMAIN tasks :
       u # t /\ Running(u) /\ (tasks[u].existing = m \/ tasks[u].merged = m)

\* existing := getCtxMeta(ctx)
TaskGet(t, ctx, keyvals) ==
  /\ tasks[t].pc = "idle"
  /\ tasks' = [tasks EXCEPT ![t] = [IdleTask EXCEPT !.pc = "make", !.ctx = ctx,
                                      !.keyvals = keyvals,
                                      !.existing = getCtxMeta(ctxs, ctx)]]
  /\ UNCHANGED <<objs, maps, ctxs, created, race, last>>

\* The loop condition i < len(keyvals)-1, at the (1-based) position i.
LoopPc(keyvals, i) == IF i < Len(keyvals) THEN "pairs" ELSE "return"

TaskMake(t) ==
  /\ tasks[t].pc = "make"
  /\ LET made == makeMerged(maps, tasks[t].existing)
     IN /\ maps' = made.maps
        /\ tasks' = [tasks EXCEPT ![t].pc = "copy", ![t].merged = made.id]
  /\ UNCHANGED <<objs, ctxs, created, race, last>>

TaskCopy(t) ==
  /\ tasks[t].pc = "copy"
  /\ maps' = copyExisting(maps, tasks[t].merged, tasks[t].existing)
  /\ race' = (race \/ (maps' # maps /\ Shared(tasks[t].merged, t)))
  /\ tasks' = [tasks EXCEPT ![t].pc = LoopPc(tasks[t].keyvals, 1), ![t].i = 1]
  /\ UNCHANGED <<objs, ctxs, created, last>>

\* One iteration of the loop over keyvals.
TaskPair(t) ==
  /\ tasks[t].pc = "pairs"
  /\ maps' = applyPair(maps, tasks[t].merged, tasks[t].keyvals, tasks[t].i)
  /\ race' = (race \/ (tasks[t].keyvals[tasks[t].i] \in StrKeys
                         /\ Shared(tasks[t].merged, t)))
  /\ tasks' = [tasks EXCEPT ![t].pc = LoopPc(tasks[t].keyvals, tasks[t].i + 2),
                            ![t].i = tasks[t].i + 2]
  /\ UNCHANGED <<objs, ctxs, created, last>>

\* return context.WithValue(ctx, errxCtxKey{}, merged)
TaskReturn(t) ==
  /\ tasks[t].pc = "return"
  /\ IF tasks[t].ctx = NilCtx
     THEN /\ tasks' = [tasks EXCEPT ![t].pc = "panicked"]
          /\ UNCHANGED <<ctxs, created>>
     ELSE /\ ctxs' = Append(ctxs, valueCtx(tasks[t].ctx, "errx", tasks[t].merged))
          /\ created' = Append(created, MapOf(maps, tasks[t].merged))
          /\ tasks' = [tasks EXCEPT ![t].pc = "done", ![t].ret = Len(ctxs) + 1]
  /\ UNCHANGED <<objs, maps, race, last>>

-----------------------------------------------------------------------------
\* One plain error of another package (errors.New) exists from the start.
Init ==
  /\ objs = <<ForeignError("std", NilErr)>>
  /\ maps = <<>>
  /\ ctxs = <<Background>>
  /\ created = <<EmptyMap>>
  /\ tasks = [t \in 1..MaxTasks |-> IdleTask]
  /\ race = FALSE
  /\ last = NoCall

\* The constructors, over errors of every shape.
Next ==
  \/ \E c \in Codes, m \in Msgs, s \in CallerStacks : CallNew(c, m, s)
  \/ \E c \in Codes, f \in Formats, a \in FormatArgs, s \in CallerStacks :
        CallNewf(c, f, a, s)
  \/ \E e \in ErrValues(objs), c \in Codes, m \in Msgs, s \in CallerStacks :
        CallWrap(e, c, m, s)
  \/ \E e \in ErrValues(objs), c \in Codes, f \in Formats, a \in FormatArgs,
         s \in CallerStacks : CallWrapf(e, c, f, a, s)
  \/ \E e \in ErrValues(objs), c \in Codes, m \in Msgs, s \in CallerStacks :
        CallEnsure(e, c, m, s)
  \/ \E e \in ErrValues(objs), c \in Codes, f \in Formats, a \in FormatArgs,
         s \in CallerStacks : CallEnsuref(e, c, f, a, s)
  \/ \E sh \in {"std", "custom"} : ErrorsNew(sh)
  \/ \E e \in ErrValues(objs) : FmtErrorf(e)

Spec == Init /\ [][Next]_vars

\* Chain traversal, over the chains that New, Wrap and the other packages build.
NextQuery ==
  \/ \E c \in Codes, m \in Msgs, s \in CallerStacks : CallNew(c, m, s)
  \/ \E e \in ErrValues(objs), c \in Codes, m \in Msgs, s \in CallerStacks :
        CallWrap(e, c, m, s)
  \/ \E sh \in {"std", "custom"} : ErrorsNew(sh)
  \/ \E e \in ErrValues(objs) : FmtErrorf(e)
  \/ \E E \in Shapes, e \in ErrValues(objs) : CallAsType(E, e)
  \/ \E e \in ErrValues(objs) : CallCodeOf(e)
  \/ \E e \in ErrValues(objs), c \in Codes : CallCodeIs(e, c)
  \/ \E e \in ErrValues(objs), cs \in CodeLists : CallCodeIn(e, cs)

SpecQuery == Init /\ [][NextQuery]_vars

\* A context that carries a snapshot exists from the start: the state after
\* ctx = WithMetaContext(context.Background(), ...).
\* Derivation of contexts, with every argument list up to MaxKV values.
InitCtx ==
  /\ objs = <<ForeignError("std", NilErr)>>
  /\ \E kv \in ShortKeyVals :
       LET r == WithMetaContext(<<Background>>, <<>>, 1, kv)
       IN /\ ctxs = r.ctxs
          /\ maps = r.maps
          /\ created = <<EmptyMap, MapOf(r.maps, getCtxMeta(r.ctxs, r.ret))>>
  /\ tasks = [t \in 1..MaxTasks |-> IdleTask]
  /\ race = FALSE
  /\ last = NoCall

NextCtx ==
  \/ \E c \in 1..Len(ctxs), kv \in KeyVals : CallWithMetaContext(c, kv)
  \/ \E c \in 1..Len(ctxs), kv \in DropKeyVals : CallWithMetaContext(c, kv)
  \/ \E kv \in ShortKeyVals : CallWithMetaContext(NilCtx, kv)
  \/ \E c \in CtxValues(ctxs) : ContextWithValue(c)

SpecCtx == InitCtx /\ [][NextCtx]_vars

\* One error, made by New, whose metadata is written while contexts are derived.
InitMeta ==
  /\ objs = New(<<ForeignError("std", NilErr)>>, <<>>, CodeNotFound, <<"m1">>,
                <<"caller", "main">>).objs
  /\ \E kv \in ShortKeyVals :
       LET r == WithMetaContext(<<Background>>, <<EmptyMap, EmptyMap>>, 1, kv)
       IN /\ ctxs = r.ctxs
          /\ maps = r.maps
          /\ created = <<EmptyMap, MapOf(r.maps, getCtxMeta(r.ctxs, r.ret))>>
  /\ tasks = [t \in 1..MaxTasks |-> IdleTask]
  /\ race = FALSE
  /\ last = NoCall

NextMeta ==
  \/ \E c \in CtxValues(ctxs), kv \in ShortKeyVals : CallWithMetaContext(c, kv)
  \/ \E p \in PtrValues(objs), k \in StrKeys, v \in ValArgs : CallWithMeta(p, k, v)
  \/ \E p \in PtrValues(objs), c \in CtxValues(ctxs) : CallWithMetaFromContext(p, c)

SpecMeta == InitMeta /\ [][NextMeta]_vars

\* Tasks that derive, each in its own steps, from the contexts there are.
NextConc ==
  \/ \E t \in DOMAIN tasks, c \in 1..Len(ctxs), kv \in PairKeyVals : TaskGet(t, c, kv)
  \/ \E t \in DOMAIN tasks : TaskMake(t)
  \/ \E t \in DOMAIN tasks : TaskCopy(t)
  \/ \E t \in DOMAIN tasks : TaskPair(t)
  \/ \E t \in DOMAIN tasks : TaskReturn(t)

SpecConc == InitCtx /\ [][NextConc]_vars

\* Readers and comparisons on the errors that New, Wrapf and fmt.Errorf around
\* a *Error, and WithRetryable make.
NextRead ==
  \/ \E c \in Codes, m \in Msgs, st \in CallerStacks : CallNew(c, m, st)
  \/ \E p \in PtrValues(objs), f \in Formats, a \in FormatArgs, st \in CallerStacks :
       CallWrapf(PtrToErr(p), CodeUnknown, f, a, st)
  \/ \E e \in PtrValues(objs) \ {NilPtr} : FmtErrorf(e)
  \/ \E p \in PtrValues(objs) : CallWithRetryable(p)
  \/ \E e \in ErrValues(objs) : CallIsRetryable(e)
  \/ \E p \in PtrValues(objs), e \in ErrValues(objs) : CallErrorIs(p, e)
  \/ \E p \in PtrValues(objs) : CallCode(p)
  \/ \E p \in PtrValues(objs) : CallError(p)
  \/ \E p \in PtrValues(objs) : CallUnwrap(p)
  \/ \E p \in PtrValues(objs) : CallDebugMessage(p)
  \/ \E p \in PtrValues(objs) : CallSource(p)
  \/ \E p \in PtrValues(objs) : CallTags(p)
  \/ \E p \in PtrValues(objs) : CallDetails(p)
  \/ \E p \in PtrValues(objs) : CallMetadata(p)
  \/ \E p \in PtrValues(objs) : CallStackTrace(p)
  \/ \E p \in PtrValues(objs) : CallErrorIsRetryable(p)
  \/ \E p \in PtrValues(objs) : CallFormatStackTrace(p)
  \/ \E p \in PtrValues(objs) : CallLogValue(p)

SpecRead == Init /\ [][NextRead]_vars

\* The number of set fields of the node n: its tags, the entries of its two
\* maps, its debug message, its source and its retryable flag.
Decorations(h, mp, n) ==
  IF h[n].shape # "errx" THEN 0
  ELSE Len(h[n].tags) + MapLen(mp, h[n].details) + MapLen(mp, h[n].metadata)
       + (IF h[n].debugMessage # <<>> THEN 1 ELSE 0)
       + (IF h[n].source # "" THEN 1 ELSE 0)
       + (IF h[n].retryable THEN 1 ELSE 0)

RECURSIVE Size(_, _, _)
Size(h, mp, n) == IF n = 0 THEN 0 ELSE 1 + Decorations(h, mp, n) + Size(h, mp, n - 1)

Within == Size(objs, maps, Len(objs)) < MaxSize

\* ctx = WithMetaContext(context.Background(), "a", "a"), and one plain error.
InitBuild ==
  /\ objs = <<ForeignError("std", NilErr)>>
  /\ LET r == WithMetaContext(<<Background>>, <<>>, 1, <<"a", "a">>)
     IN /\ ctxs = r.ctxs
        /\ maps = r.maps
        /\ created = <<EmptyMap, MapOf(r.maps, getCtxMeta(r.ctxs, r.ret))>>
  /\ tasks = [t \in 1..MaxTasks |-> IdleTask]
  /\ race = FALSE
  /\ last = NoCall

\* Errors are built by New, Wrap and Ensure and every mutator decorates the
\* nodes built so far.
Built == PtrValues(objs) \ {NilPtr}

NextBuild ==
  \/ Within /\ \E c \in Codes, m \in Msgs, st \in CallerStacks : CallNew(c, m, st)
  \/ Within /\ \E e \in {NilErr} \cup (1..Len(objs)), m \in Msgs, st \in CallerStacks :
                 CallWrap(e, CodeUnknown, m, st)
  \/ Within /\ \E e \in 1..Len(objs), m \in Msgs, st \in CallerStacks :
                 CallEnsure(e, CodeUnknown, m, st)
  \/ Within /\ \E p \in Built, k \in StrKeys : CallWithDetail(p, k, "#1")
  \/ Within /\ \E p \in Built, k \in StrKeys : CallWithMeta(p, k, "#1")
  \/ Within /\ \E p \in Built, c \in CtxValues(ctxs) :
                 CallWithMetaFromContext(p, c)
  \/ Within /\ \E p \in Built, d \in Debugs : CallWithDebug(p, d)
  \/ Within /\ \E p \in Built, f \in Formats, a \in FormatArgs :
                 CallWithDebugf(p, f, a)
  \/ Within /\ \E p \in Built, src \in Sources : CallWithSource(p, src)
  \/ Within /\ \E p \in Built, t \in TagLists : CallWithTags(p, t)
  \/ Within /\ \E p \in Built : CallWithRetryable(p)

SpecBuild == InitBuild /\ [][NextBuild]_vars

\* Every mutator on every pointer, the nil pointer included, with one error
\* made by New and one context.
NextNil ==
  \/ Within /\ \E p \in PtrValues(objs), k \in StrKeys : CallWithDetail(p, k, "#1")
  \/ Within /\ \E p \in PtrValues(objs), k \in StrKeys : CallWithMeta(p, k, "#1")
  \/ Within /\ \E p \in PtrValues(objs), c \in CtxValues(ctxs) :
                 CallWithMetaFromContext(p, c)
  \/ Within /\ \E p \in PtrValues(objs), d \in Debugs : CallWithDebug(p, d)
  \/ Within /\ \E p \in PtrValues(objs), f \in Formats, a \in FormatArgs :
                 CallWithDebugf(p, f, a)
  \/ Within /\ \E p \in PtrValues(objs), src \in Sources : CallWithSource(p, src)
  \/ Within /\ \E p \in PtrValues(objs), t \in TagLists : CallWithTags(p, t)
  \/ Within /\ \E p \in PtrValues(objs) : CallWithRetryable(p)

SpecNil == InitMeta /\ [][NextNil]_vars

\* WithDetail and WithMeta with every key and value, and the readers of the
\* two maps, on one error made by New.
NextMaps ==
  \/ \E p \in PtrValues(objs), k \in StrKeys, v \in ValArgs : CallWithDetail(p, k, v)
  \/ \E p \in PtrValues(objs), k \in StrKeys, v \in ValArgs : CallWithMeta(p, k, v)
  \/ \E p \in PtrValues(objs) : CallDetails(p)
  \/ \E p \in PtrValues(objs) : CallMetadata(p)

SpecMaps == InitMeta /\ [][NextMaps]_vars

\* The client messages of the errors whose summaries are read: one that is
\* also used as a debug message, and one that has the text of a label in it.
DebugMsgs == {<<"d">>, <<"source=", "x">>}

\* Which mutators a builder chain calls, and with what.
NoDeco ==
  [source |-> "", tags |-> <<>>, detail |-> FALSE, meta |-> FALSE,
   retryable |-> FALSE, debug |-> <<>>]

Decos ==
  [source : {"", "s"}, tags : {<<>>, <<"t", "u">>}, detail : BOOLEAN,
   meta : BOOLEAN, retryable : BOOLEAN, debug : {<<>>, <<"d">>}]

InnerDecos ==
  {NoDeco, [NoDeco EXCEPT !.source = "r", !.retryable = TRUE, !.debug = <<"d">>]}

\* A builder chain on the error that a constructor returned:
\* err.WithSource(..).WithTags(..).WithDetail(..).WithMeta(..).WithRetryable().WithDebug(..),
\* with the calls that d leaves out left out.
Decorate(r, d) ==
  LET a == IF d.source = "" THEN r ELSE WithSource(r.objs, r.maps, r.ret, d.source)
      b == IF d.tags = <<>> THEN a ELSE WithTags(a.objs, a.maps, a.ret, d.tags)
      c == IF d.detail THEN WithDetail(b.objs, b.maps, b.ret, "a", "#1") ELSE b
      e == IF d.meta
           THEN Result(c.ret, c.objs, WithMeta(c.objs, c.maps, c.ret, "b", "a").maps)
           ELSE c
      f == IF d.retryable THEN WithRetryable(e.objs, e.maps, e.ret) ELSE e
  IN IF d.debug = <<>> THEN f ELSE WithDebug(f.objs, f.maps, f.ret, d.debug)

\* Three errors built one on the other: the first by New or by Wrap of an
\* error of another package or of a nil *Error, the second and the third by
\* Wrap of the one before and a builder chain.
InitDebug ==
  /\ \E cause \in {NilErr, 1, TypedNil}, m1 \in DebugMsgs, d2 \in InnerDecos,
        c3 \in Codes, m3 \in DebugMsgs, d3 \in Decos, st \in CallerStacks :
       LET h0 == <<ForeignError("std", NilErr)>>
           r1 == IF cause = NilErr
                 THEN New(h0, <<>>, CodeUnknown, m1, st)
                 ELSE Wrap(h0, <<>>, cause, CodeUnknown, m1, st)
           r2 == Decorate(Wrap(r1.objs, r1.maps, r1.ret, CodeNotFound, <<"m1">>, st), d2)
           r3 == Decorate(Wrap(r2.objs, r2.maps, r2.ret, c3, m3, st), d3)
       IN /\ objs = r3.objs
          /\ maps = r3.maps
  /\ ctxs = <<Background>>
  /\ created = <<EmptyMap>>
  /\ tasks = [t \in 1..MaxTasks |-> IdleTask]
  /\ race = FALSE
  /\ last = NoCall

\* The summaries of the errors: the debug message, the log value and what a
\* logger writes.
NextDebug ==
  \/ \E p \in Built : CallDebugMessage(p)
  \/ \E p \in Built : CallLogValue(p)
  \/ \E p \in Built : CallLog(p)

SpecDebug == InitDebug /\ [][NextDebug]_vars

\* No error exists yet.
InitEmpty ==
  /\ objs = <<>>
  /\ maps = <<>>
  /\ ctxs = <<Background>>
  /\ created = <<EmptyMap>>
  /\ tasks = [t \in 1..MaxTasks |-> IdleTask]
  /\ race = FALSE
  /\ last = NoCall

\* Ensure, once and twice, on nil, on a nil *Error and on the errors that New,
\* errors.New and fmt.Errorf make.
NextEnsure ==
  \/ \E c \in Codes, m \in Msgs, st \in CallerStacks : CallNew(c, m, st)
  \/ ErrorsNew("std")
  \/ \E e \in ErrValues(objs) : FmtErrorf(e)
  \/ \E e \in ErrValues(objs), m \in Msgs, st \in CallerStacks :
       CallEnsure(e, CodeUnknown, m, st)
  \/ \E e \in ErrValues(objs), f \in Formats, a \in FormatArgs, st \in CallerStacks :
       CallEnsuref(e, CodeUnknown, f, a, st)
  \/ \E e \in ErrValues(objs), c1 \in Codes, m \in Msgs, st \in CallerStacks :
       CallEnsureTwice(e, c1, CodeUnknown, m, st)

SpecEnsure == InitEmpty /\ [][NextEnsure]_vars

\* The stack of the goroutine that calls a constructor, innermost frame first:
\* the caller, the frames below it and the entry of the goroutine.
StackOfDepth(n) ==
  [i \in 1..n |-> IF i = 1 THEN "caller" ELSE IF i = n THEN "main" ELSE "frame"]

\* Stacks of depths around the capacity of the capture.
DeepStacks == {StackOfDepth(n) : n \in {1, maxDepth, maxDepth + 1}}

\* The stack that is deeper than the capture holds.
DeepStack == StackOfDepth(maxDepth + 1)

\* New called from stacks of every depth, the other constructors from the deep
\* stack, on nil, on the error of another package and on the newest error;
\* and a mutator after them.
NextStack ==
  \/ \E st \in DeepStacks : CallNew(CodeNotFound, <<"m1">>, st)
  \/ \E f \in Formats, a \in FormatArgs : CallNewf(CodeNotFound, f, a, DeepStack)
  \/ \E e \in {NilErr, 1, Len(objs)} : CallWrap(e, CodeUnknown, <<"m1">>, DeepStack)
  \/ \E e \in {NilErr, 1, Len(objs)}, f \in Formats, a \in FormatArgs :
       CallWrapf(e, CodeUnknown, f, a, DeepStack)
  \/ \E e \in {NilErr, 1, Len(objs)} : CallEnsure(e, CodeUnknown, <<"m1">>, DeepStack)
  \/ \E e \in {NilErr, 1, Len(objs)}, f \in Formats, a \in FormatArgs :
       CallEnsuref(e, CodeUnknown, f, a, DeepStack)
  \/ \E p \in Built : CallWithRetryable(p)
  \/ \E p \in Built : CallStackTrace(p)

SpecStack == Init /\ [][NextStack]_vars

\* The names of the codes: String() of every value of the type.
NextCode == \E c \in CodeValues : CallString(c)

SpecCode == Init /\ [][NextCode]_vars

-----------------------------------------------------------------------------
\* What the claims speak of

\* The unwrap chain of err, outermost first.
RECURSIVE Chain(_, _)
Chain(h, err) == IF err = NilErr THEN <<>> ELSE <<err>> \o Chain(h, Unwrap(h, err))

\* The node x is of the shape E; a nil *Error in an interface has the type *Error.
OfShape(h, x, E) == IF x = TypedNil THEN E = "errx" ELSE h[x].shape = E

Matches(h, err, E) == {i \in 1..Len(Chain(h, err)) : OfShape(h, Chain(h, err)[i], E)}

Contains(h, err, E) == Matches(h, err, E) # {}

\* The first node of the shape E in the chain of err, where there is one.
First(h, err, E) ==
  Chain(h, err)[CHOOSE i \in Matches(h, err, E) : \A j \in Matches(h, err, E) : i <= j]

\* The format with its i-th verb replaced by the i-th argument.
Interpolated(format, args) ==
  [i \in 1..Len(format) |->
     IF format[i] = "%v"
     THEN args[Cardinality({j \in 1..i : format[j] = "%v"})]
     ELSE format[i]]

\* The fallback message of the last call of Ensure or Ensuref.
FallbackMessage ==
  IF last.op = "Ensuref" THEN Interpolated(last.format, last.args) ELSE last.msg

\* C1: when the chain of a non-nil err holds an ErrorValue, Ensure and Ensuref
\* return the first one found, the identical instance, allocate nothing and
\* leave every object and every map as it was; the fallback is discarded.
EnsureReturnsExisting ==
  (last.op \in {"Ensure", "Ensuref"} /\ last.err # NilErr
     /\ Contains(last.preObjs, last.err, "errx"))
  => /\ PtrToErr(last.ret) = First(last.preObjs, last.err, "errx")
     /\ objs = last.preObjs
     /\ maps = last.preMaps

\* Ensuref, on a wrapper of another package around a node whose code and
\* message differ from the fallback, returned that node.
EnsurePassedThrough ==
  /\ last.op = "Ensuref"
  /\ last.err \in 1..Len(objs)
  /\ objs[last.err].shape = "wrap"
  /\ last.ret \in 1..Len(objs)
  /\ objs[last.ret].shape = "errx"
  /\ objs[last.ret].code # last.code
  /\ objs[last.ret].message # FallbackMessage

\* C2: when the chain of a non-nil err holds no ErrorValue, Ensure and Ensuref
\* return a newly allocated node with the fallback code, the fallback message
\* (the interpolated format for Ensuref) and err itself as its cause; the
\* objects there were are untouched.
EnsureWrapsUnclassified ==
  (last.op \in {"Ensure", "Ensuref"} /\ last.err # NilErr
     /\ ~Contains(last.preObjs, last.err, "errx"))
  => /\ last.ret = Len(last.preObjs) + 1
     /\ Len(objs) = Len(last.preObjs) + 1
     /\ \A n \in 1..Len(last.preObjs) : objs[n] = last.preObjs[n]
     /\ objs[last.ret].shape = "errx"
     /\ objs[last.ret].code = last.code
     /\ objs[last.ret].message = FallbackMessage
     /\ objs[last.ret].cause = last.err

\* Ensure wrapped a wrapper of another package that holds no ErrorValue.
EnsureWrapped ==
  /\ last.op = "Ensure"
  /\ last.err \in 1..Len(last.preObjs)
  /\ last.preObjs[last.err].shape = "wrap"
  /\ last.ret = Len(objs)
  /\ objs[last.ret].cause = last.err
  /\ objs[last.ret].code = CodeNotFound

\* C3: Wrap, Wrapf, Ensure and Ensuref return nil if and only if err is nil.
\* (Ensure and Ensuref return the nil *Error that the chain of a non-nil err
\* holds.)
NilIffNil ==
  last.op \in {"Wrap", "Wrapf", "Ensure", "Ensuref"}
  => (last.ret = NilPtr <=> last.err = NilErr)

\* What reading the context c gives now.
Reading(c) == MapOf(maps, getCtxMeta(ctxs, c))

\* The snapshot the context c had when it was created; none for a nil context.
SnapshotAtCreation(c) == IF c = NilCtx THEN EmptyMap ELSE created[c]

\* The positions of keyvals where the string key k is followed by a value.
Occurrences(keyvals, k) ==
  {i \in 1..(Len(keyvals) - 1) : i % 2 = 1 /\ keyvals[i] = k}

\* The parent's mapping with, for each supplied string key, the value of its
\* last occurrence.
Derived(parent, keyvals) ==
  [k \in StrKeys |->
     IF Occurrences(keyvals, k) = {} THEN parent[k]
     ELSE keyvals[(CHOOSE i \in Occurrences(keyvals, k) :
                     \A j \in Occurrences(keyvals, k) : j <= i) + 1]]

\* C4: after any sequence of derivations with WithMetaContext, merges with
\* WithMetaFromContext and calls of WithMeta, reading any context gives exactly
\* the mapping it had when it was created.
SnapshotsNeverChange ==
  \A c \in 1..Len(ctxs) : Reading(c) = created[c]

\* A child overrode a key of its parent, the child was merged into an error,
\* and WithMeta then changed that key of the error.
ChildMergedThenMetaWritten ==
  /\ last.op = "WithMeta"
  /\ last.recv # NilPtr
  /\ \E c, d \in 1..Len(ctxs) :
       /\ ctxs[d].parent = c
       /\ ctxs[c].key = "errx"
       /\ ctxs[d].key = "errx"
       /\ created[c][last.key] # NoVal
       /\ created[d][last.key] \notin {NoVal, created[c][last.key]}
       /\ last.preMaps[objs[last.recv].metadata][last.key] = created[d][last.key]
       /\ last.val # created[d][last.key]

\* C5: under every interleaving of the tasks that derive from the contexts
\* there are, no step writes to a map that another task or a reader of a
\* context can reach, the snapshot of every parent stays what it was, and the
\* child of each finished task reads as its parent's snapshot with only that
\* task's own pairs on top.
ConcurrentDerivationsIsolated ==
  /\ ~race
  /\ \A t \in DOMAIN tasks :
       /\ tasks[t].pc # "idle" => Reading(tasks[t].ctx) = created[tasks[t].ctx]
       /\ tasks[t].pc = "done"
          => Reading(tasks[t].ret) = Derived(created[tasks[t].ctx], tasks[t].keyvals)

\* One task has returned its child and another is in its loop, both deriving
\* from the same parent, whose snapshot is not empty, with different keys.
TwoTasksOneParent ==
  \E t, u \in DOMAIN tasks :
    /\ tasks[t].pc = "done"
    /\ tasks[u].pc = "pairs"
    /\ tasks[t].ctx = tasks[u].ctx
    /\ created[tasks[t].ctx] # EmptyMap
    /\ tasks[t].keyvals[1] \in StrKeys
    /\ tasks[u].keyvals[1] \in StrKeys
    /\ tasks[t].keyvals[1] # tasks[u].keyvals[1]

\* C6: the child WithMetaContext returns holds every key of the parent that
\* the call does not supply with the parent's value, and every supplied string
\* key with the value of its last occurrence in the call; the parent is the
\* context given, so the metadata accumulates over successive derivations.
ChildIsParentPlusPairs ==
  (last.op = "WithMetaContext" /\ ~last.panic)
  => /\ ctxs[last.ret].parent = last.ctx
     /\ Reading(last.ret) = Derived(SnapshotAtCreation(last.ctx), last.keyvals)

\* A derivation kept a key of the parent and supplied another key twice, with
\* two values.
KeptAndOverridden ==
  /\ last.op = "WithMetaContext"
  /\ ~last.panic
  /\ \E k \in StrKeys :
       /\ created[last.ctx][k] # NoVal
       /\ Occurrences(last.keyvals, k) = {}
       /\ created[last.ret][k] = created[last.ctx][k]
  /\ \E k \in StrKeys :
       /\ Occurrences(last.keyvals, k) = {1, 3}
       /\ last.keyvals[2] # last.keyvals[4]
       /\ created[last.ret][k] = last.keyvals[4]

\* C7: WithMetaFromContext on a non-nil error returns the same instance, sets
\* each key of the context's snapshot to the snapshot's value and leaves every
\* other key, and every other map, as it was; with a nil context or a context
\* with no snapshot nothing changes.  WithMeta sets its key to its value, so
\* of the two the later call decides the key.
MergeFollowsCallOrder ==
  /\ (last.op = "WithMetaFromContext" /\ last.recv # NilPtr)
     => /\ last.ret = last.recv
        /\ objs = last.preObjs
        /\ \A k \in StrKeys :
             maps[objs[last.recv].metadata][k] =
               IF SnapshotAtCreation(last.ctx)[k] # NoVal
               THEN SnapshotAtCreation(last.ctx)[k]
               ELSE last.preMaps[objs[last.recv].metadata][k]
        /\ \A m \in 1..Len(maps) :
             m # objs[last.recv].metadata => maps[m] = last.preMaps[m]
        /\ (last.ctx = NilCtx \/ getCtxMeta(ctxs, last.ctx) = NilMap)
           => maps = last.preMaps
  /\ (last.op = "WithMeta" /\ last.recv # NilPtr)
     => /\ last.ret = last.recv
        /\ maps[objs[last.recv].metadata][last.key] = last.val
        /\ \A k \in StrKeys \ {last.key} :
             maps[objs[last.recv].metadata][k] =
               last.preMaps[objs[last.recv].metadata][k]

\* A merge replaced the value WithMeta had given a key and left another key of
\* the error that the context does not have.
MergeOverwroteMeta ==
  /\ last.op = "WithMetaFromContext"
  /\ last.recv # NilPtr
  /\ last.ctx # NilCtx
  /\ \E k \in StrKeys :
       /\ last.preMaps[objs[last.recv].metadata][k] # NoVal
       /\ created[last.ctx][k] \notin {NoVal, last.preMaps[objs[last.recv].metadata][k]}
       /\ maps[objs[last.recv].metadata][k] = created[last.ctx][k]
  /\ \E k \in StrKeys :
       /\ created[last.ctx][k] = NoVal
       /\ maps[objs[last.recv].metadata][k] # NoVal

\* C8: AsType returns the first node of the shape E in the chain of err,
\* outermost first and past the nodes of other shapes, with found = true; it
\* returns the zero value with found = false for a nil err and for a chain
\* with no such node.
AsTypeFirstMatch ==
  last.op = "AsType"
  => IF Contains(objs, last.err, last.shape)
     THEN /\ last.ok
          /\ First(objs, last.err, last.shape) =
               (IF last.shape = "errx" THEN PtrToErr(last.ret) ELSE last.ret)
     ELSE ~last.ok /\ last.ret = NilPtr

\* As, on wrap(wrap(base, c2, m2), c1, m1) with c1 # c2, returned the outer node.
AsReturnedOuter ==
  /\ last.op = "AsType"
  /\ last.shape = "errx"
  /\ last.err \in 1..Len(objs)
  /\ objs[last.err].shape = "errx"
  /\ objs[last.err].cause \in 1..Len(objs)
  /\ objs[objs[last.err].cause].shape = "errx"
  /\ objs[objs[last.err].cause].code # objs[last.err].code
  /\ objs[objs[last.err].cause].cause \in 1..Len(objs)
  /\ objs[objs[objs[last.err].cause].cause].shape = "std"
  /\ last.ok
  /\ last.ret = last.err

\* The code that the reader Code() gives for the node x of a chain.
CodeOfNode(h, x) == IF x = TypedNil THEN CodeUnknown ELSE h[x].code

\* C9: CodeOf returns the code of the first ErrorValue in the chain of err,
\* and CodeUnknown for a nil err and for a chain with no ErrorValue.
CodeOfFirstOrUnknown ==
  last.op = "CodeOf"
  => /\ ~last.panic
     /\ last.ret = IF Contains(objs, last.err, "errx")
                   THEN CodeOfNode(objs, First(objs, last.err, "errx"))
                   ELSE CodeUnknown

\* C10: CodeIs is true exactly when the chain of err holds an ErrorValue and
\* the code of the first one is the code asked for, CodeIn exactly when it is
\* among the codes asked for; both are false, for every code, where there is
\* no ErrorValue.
CodeIsCodeInFirst ==
  /\ last.op = "CodeIs"
     => /\ ~last.panic
        /\ last.ok = (/\ Contains(objs, last.err, "errx")
                      /\ CodeOfNode(objs, First(objs, last.err, "errx")) = last.code)
  /\ last.op = "CodeIn"
     => /\ ~last.panic
        /\ last.ok = (/\ Contains(objs, last.err, "errx")
                      /\ \E i \in 1..Len(last.codes) :
                           last.codes[i] = CodeOfNode(objs, First(objs, last.err, "errx")))

\* C11: IsRetryable(err) is false for a nil err and for a chain with no
\* ErrorValue, and otherwise is the retryable flag of the first ErrorValue of
\* the chain; the flag of an ErrorValue deeper in the chain does not count.
IsRetryableOfFirst ==
  last.op = "IsRetryable"
  => last.ok = (/\ Contains(objs, last.err, "errx")
                /\ First(objs, last.err, "errx") # TypedNil
                /\ objs[First(objs, last.err, "errx")].retryable)

\* IsRetryable was false on a chain whose first ErrorValue is not retryable
\* and that holds a retryable ErrorValue deeper down.
DeeperFlagIgnored ==
  /\ last.op = "IsRetryable"
  /\ ~last.ok
  /\ last.err \in 1..Len(objs)
  /\ objs[last.err].shape = "errx"
  /\ ~objs[last.err].retryable
  /\ objs[last.err].cause \in 1..Len(objs)
  /\ objs[objs[last.err].cause].shape = "errx"
  /\ objs[objs[last.err].cause].retryable

\* The pointers to the ErrorValues there are.
Present == {n \in 1..Len(objs) : objs[n].shape = "errx"}

\* C12: for present ErrorValues a and b, a.Is(b) holds if and only if their
\* codes are equal, whatever their other fields; so Is is reflexive, symmetric
\* and transitive on them; Is against a target of another shape is false.
IsComparesCodes ==
  /\ (last.op = "Error.Is" /\ last.recv # NilPtr /\ last.err \in 1..Len(objs))
     => /\ ~last.panic
        /\ last.ok = (/\ objs[last.err].shape = "errx"
                      /\ objs[last.recv].code = objs[last.err].code)
  /\ \A a \in Present : ErrorIs(objs, a, a).val
  /\ \A a, b \in Present : ErrorIs(objs, a, b).val = ErrorIs(objs, b, a).val
  /\ \A a, b, c \in Present :
       (ErrorIs(objs, a, b).val /\ ErrorIs(objs, b, c).val) => ErrorIs(objs, a, c).val

\* Is was true of two distinct nodes of one code whose messages, causes and
\* retryable flags differ.
IsOfDifferentNodes ==
  /\ last.op = "Error.Is"
  /\ last.ok
  /\ last.recv \in Present
  /\ last.err \in Present
  /\ last.recv # last.err
  /\ objs[last.recv].message # objs[last.err].message
  /\ objs[last.recv].cause # objs[last.err].cause
  /\ objs[last.recv].retryable # objs[last.err].retryable

\* C13: nil is equivalent only to nil: Is on a nil receiver is true exactly
\* when the target is nil, and Is on a non-nil receiver with a nil target, a
\* nil *Error passed as the target included, is false and does not fail.
NilEquivalentOnlyToNil ==
  last.op = "Error.Is"
  => /\ ~last.panic
     /\ last.recv = NilPtr => last.ok = (last.err = NilErr)
     /\ (last.recv # NilPtr /\ last.err \in {NilErr, TypedNil}) => ~last.ok

\* C16: every reader called on a nil receiver returns its zero value: Code()
\* CodeUnknown, Error(), DebugMessage() and FormatStackTrace() the empty
\* string, Unwrap() nil, Source() the empty string, Tags() and StackTrace()
\* empty, Details() and Metadata() maps with no entry, IsRetryable() false and
\* LogValue() the zero value, which is not a group.
ReadersOfNil ==
  last.recv = NilPtr
  => /\ last.op = "Code" => last.out = CodeUnknown
     /\ last.op \in {"Error", "DebugMessage", "FormatStackTrace"} => last.out = <<>>
     /\ last.op = "Unwrap" => last.out = NilErr
     /\ last.op = "Source" => last.out = ""
     /\ last.op \in {"Tags", "StackTrace"} => Len(last.out) = 0
     /\ last.op \in {"Details", "Metadata"} => MapOf(maps, last.out) = EmptyMap
     /\ last.op = "Error.IsRetryable" => last.out = FALSE
     /\ last.op = "LogValue"
        => last.out.kind # "Group" /\ last.out = [kind |-> "Any", attrs |-> <<>>]

\* LogValue was called on a nil receiver while a retryable ErrorValue exists.
LogValueOfNil ==
  /\ last.op = "LogValue"
  /\ last.recv = NilPtr
  /\ \E n \in Present : objs[n].retryable

\* The number of entries of the map with the id m.
Entries(m) == Cardinality({k \in StrKeys : maps[m][k] # NoVal})

\* C14: New(c, m) returns a new node with the code c, the message m, no cause,
\* an empty debug message and source, no tags, retryable false, two empty maps
\* that are not nil, differ from each other and belong to no other node, and a
\* stack trace that is not empty; Wrap(cause, c, m) on a non-nil cause gives
\* the same with the cause as what Unwrap() returns; nothing is copied from
\* the cause, and no object or map there was is changed.
ConstructedFresh ==
  /\ (last.op = "New" \/ (last.op = "Wrap" /\ last.err # NilErr))
     => /\ last.ret = Len(last.preObjs) + 1
        /\ Len(objs) = Len(last.preObjs) + 1
        /\ Code(objs, last.ret) = last.code
        /\ ErrorMessage(objs, last.ret) = last.msg
        /\ ErrorUnwrap(objs, last.ret) = (IF last.op = "New" THEN NilErr ELSE last.err)
        /\ objs[last.ret].debugMessage = <<>>
        /\ objs[last.ret].source = ""
        /\ objs[last.ret].tags = <<>>
        /\ ~objs[last.ret].retryable
        /\ objs[last.ret].details # NilMap
        /\ objs[last.ret].metadata # NilMap
        /\ Entries(objs[last.ret].details) = 0
        /\ Entries(objs[last.ret].metadata) = 0
        /\ Len(objs[last.ret].stackTrace) > 0
        /\ \A n \in 1..Len(last.preObjs) : objs[n] = last.preObjs[n]
        /\ \A m \in 1..Len(last.preMaps) : maps[m] = last.preMaps[m]
  /\ \A n \in Present :
       /\ objs[n].details # objs[n].metadata
       /\ \A c \in 1..Len(ctxs) : ctxs[c].meta \notin {objs[n].details, objs[n].metadata}
       /\ \A o \in Present \ {n} :
            {objs[n].details, objs[n].metadata}
              \cap {objs[o].details, objs[o].metadata} = {}

\* Wrap was called on a node that has a tag and a detail.
WrappedDecorated ==
  /\ last.op = "Wrap"
  /\ last.err \in Present
  /\ Len(objs[last.err].tags) > 0
  /\ Entries(objs[last.err].details) > 0
  /\ objs[last.ret].cause = last.err

Mutators ==
  {"WithDetail", "WithMeta", "WithMetaFromContext", "WithDebug", "WithDebugf",
   "WithSource", "WithTags", "WithRetryable"}

\* C15: every mutator called on a nil receiver returns nil and changes
\* neither an object nor a map, so a chain of mutators on nil stays nil.
MutatorsOfNil ==
  (last.op \in Mutators /\ last.recv = NilPtr)
  => /\ last.ret = NilPtr
     /\ ~last.panic
     /\ objs = last.preObjs
     /\ maps = last.preMaps

\* WithMetaFromContext was called on a nil receiver with a context that has
\* a snapshot, while an error with metadata exists.
MergeIntoNil ==
  /\ last.op = "WithMetaFromContext"
  /\ last.recv = NilPtr
  /\ last.ctx # NilCtx
  /\ created[last.ctx] # EmptyMap
  /\ \E n \in Present : Entries(objs[n].metadata) > 0

Fields ==
  {"shape", "code", "message", "debugMessage", "cause", "source", "tags",
   "details", "metadata", "stackTrace", "retryable"}

\* The field that the mutator op writes; the two maps are objects of their own.
OwnFields(op) ==
  CASE op \in {"WithDebug", "WithDebugf"} -> {"debugMessage"}
    [] op = "WithSource" -> {"source"}
    [] op = "WithTags" -> {"tags"}
    [] op = "WithRetryable" -> {"retryable"}
    [] OTHER -> {}

\* The map that the mutator op writes.
OwnMaps(op, n) ==
  CASE op = "WithDetail" -> {last.preObjs[n].details}
    [] op \in {"WithMeta", "WithMetaFromContext"} -> {last.preObjs[n].metadata}
    [] OTHER -> {}

\* C17: on a non-nil receiver every mutator returns the receiver and changes
\* only its own field of it: WithDetail the details, WithMeta and
\* WithMetaFromContext the metadata, WithDebug and WithDebugf the debug
\* message, WithSource the source, WithTags the tags, WithRetryable the flag;
\* code, message, cause and stack trace, every other node and every other map
\* stay as they were.
MutatorsChangeOwnField ==
  (last.op \in Mutators /\ last.recv # NilPtr)
  => /\ last.ret = last.recv
     /\ Len(objs) = Len(last.preObjs)
     /\ Len(maps) = Len(last.preMaps)
     /\ \A n \in 1..Len(objs), f \in Fields :
          (n # last.recv \/ f \notin OwnFields(last.op))
          => objs[n][f] = last.preObjs[n][f]
     /\ \A m \in 1..Len(maps) :
          m \notin OwnMaps(last.op, last.recv) => maps[m] = last.preMaps[m]

\* WithDebug set the debug message of a retryable node that has tags and a
\* cause.
DebugOfDecorated ==
  /\ last.op = "WithDebug"
  /\ last.recv \in Present
  /\ objs[last.recv].debugMessage # last.preObjs[last.recv].debugMessage
  /\ objs[last.recv].retryable
  /\ Len(objs[last.recv].tags) > 0
  /\ objs[last.recv].cause # NilErr

\* C18: the retryable flag is false on every new node, true after
\* WithRetryable, and no step of any mutator, of Wrap or of Ensure turns it
\* from true to false.
RetryableMonotonic ==
  [][/\ \A n \in 1..Len(objs) : objs[n].retryable => objs'[n].retryable
     /\ \A n \in (Len(objs) + 1)..Len(objs') : ~objs'[n].retryable
     /\ (last'.op = "WithRetryable" /\ last'.recv # NilPtr)
        => objs'[last'.recv].retryable]_vars

\* A retryable node has been wrapped and then given a source.
RetryableWrappedAndDecorated ==
  /\ last.op = "WithSource"
  /\ last.recv \in Present
  /\ objs[last.recv].retryable
  /\ \E n \in Present : objs[n].cause = last.recv

IsPrefix(s, t) == Len(s) <= Len(t) /\ SubSeq(t, 1, Len(s)) = s

\* C19: tags are append-only: a node starts with no tags, WithTags leaves the
\* tags there were followed by the labels supplied, in their order and with
\* duplicates, and no other call changes the tags, so the tags before a call
\* are a prefix of the tags after it.
TagsAppendOnly ==
  /\ \A n \in (Len(last.preObjs) + 1)..Len(objs) : Tags(objs, n) = <<>>
  /\ \A n \in 1..Len(last.preObjs) :
       /\ IsPrefix(last.preObjs[n].tags, Tags(objs, n))
       /\ Tags(objs, n) =
            IF last.op = "WithTags" /\ last.recv = n
            THEN last.preObjs[n].tags \o last.tags
            ELSE last.preObjs[n].tags

\* WithTags("t", "u") on a node tagged "t" left the tags "t", "t", "u".
TagsWithDuplicate ==
  /\ last.op = "WithTags"
  /\ last.recv \in Present
  /\ last.tags = <<"t", "u">>
  /\ objs[last.recv].tags = <<"t", "t", "u">>

\* C20: WithDetail and WithMeta are upserts: the key given has the value
\* given, every other key of that map and the other map of the node stay as
\* they were; a node starts with both maps empty; details and metadata are
\* two maps.
MapUpserts ==
  /\ last = NoCall
     => \A n \in Present : Entries(Details(objs, n)) = 0 /\ Entries(Metadata(objs, n)) = 0
  /\ \A n \in Present : Details(objs, n) # Metadata(objs, n)
  /\ (last.op = "WithDetail" /\ last.recv # NilPtr)
     => /\ maps[Details(objs, last.recv)] =
             [last.preMaps[Details(objs, last.recv)] EXCEPT ![last.key] = last.val]
        /\ maps[Metadata(objs, last.recv)] = last.preMaps[Metadata(objs, last.recv)]
  /\ (last.op = "WithMeta" /\ last.recv # NilPtr)
     => /\ maps[Metadata(objs, last.recv)] =
             [last.preMaps[Metadata(objs, last.recv)] EXCEPT ![last.key] = last.val]
        /\ maps[Details(objs, last.recv)] = last.preMaps[Details(objs, last.recv)]

\* WithDetail replaced the value of a key, kept another key, and the metadata
\* hold another value for the key replaced.
DetailReplaced ==
  /\ last.op = "WithDetail"
  /\ last.recv \in Present
  /\ last.preMaps[Details(objs, last.recv)][last.key] \notin {NoVal, last.val}
  /\ \E k \in StrKeys \ {last.key} : maps[Details(objs, last.recv)][k] # NoVal
  /\ maps[Metadata(objs, last.recv)][last.key] \notin {NoVal, last.val}

\* The positions of keyvals that the loop of WithMetaContext takes for keys and
\* that have a value after them.
KeyPositions(keyvals) == {i \in 1..(Len(keyvals) - 1) : i % 2 = 1}

\* C21: WithMetaContext drops a pair whose key is no string together with its
\* value, and drops a last key that has no value; every other pair is applied
\* with its own value, the one that stands right after its key, so a key that
\* no applied pair supplies keeps what the parent has for it.
DroppedPairsLeaveOthers ==
  (last.op = "WithMetaContext" /\ ~last.panic)
  => /\ \A i \in KeyPositions(last.keyvals) :
          (/\ last.keyvals[i] \in StrKeys
           /\ \A j \in KeyPositions(last.keyvals) :
                 j > i => last.keyvals[j] # last.keyvals[i])
          => Reading(last.ret)[last.keyvals[i]] = last.keyvals[i + 1]
     /\ \A k \in StrKeys :
          (\A i \in KeyPositions(last.keyvals) : last.keyvals[i] # k)
          => Reading(last.ret)[k] = SnapshotAtCreation(last.ctx)[k]

\* One call gave a pair under a key that is no string, whose value is a string
\* the parent has as a key, then a pair under a string key, then a key alone
\* that no pair supplies.
DroppedPairAndTrailingKey ==
  /\ last.op = "WithMetaContext"
  /\ ~last.panic
  /\ Len(last.keyvals) = 5
  /\ last.keyvals[1] \in NonStrKeys
  /\ last.keyvals[2] \in StrKeys
  /\ last.keyvals[3] \in StrKeys
  /\ last.keyvals[5] \in StrKeys \ {last.keyvals[3]}
  /\ SnapshotAtCreation(last.ctx)[last.keyvals[5]] \notin {NoVal, last.keyvals[4]}
  /\ Reading(last.ret)[last.keyvals[5]] = SnapshotAtCreation(last.ctx)[last.keyvals[5]]
  /\ Reading(last.ret)[last.keyvals[3]] = last.keyvals[4]

\* C22: WithMetaContext is defined for a parent that carries no snapshot, a nil
\* context included: it does not fail, and the child it returns reads as
\* exactly the valid pairs of the call; a context to which nothing was ever
\* attached reads as the empty mapping.
DefinedWithoutSnapshot ==
  /\ (last.op = "WithMetaContext" /\ SnapshotAtCreation(last.ctx) = EmptyMap)
     => /\ ~last.panic
        /\ last.ret # NilCtx
        /\ Reading(last.ret) = Derived(EmptyMap, last.keyvals)
  /\ \A c \in CtxValues(ctxs) : getCtxMeta(ctxs, c) = NilMap => Reading(c) = EmptyMap

\* The text cut at every separator.
RECURSIVE Split(_, _)
Split(text, sep) ==
  IF \A i \in 1..Len(text) : text[i] # sep THEN <<text>>
  ELSE LET i == CHOOSE j \in 1..Len(text) :
                  text[j] = sep /\ \A k \in 1..(j - 1) : text[k] # sep
       IN <<SubSeq(text, 1, i - 1)>> \o Split(SubSeq(text, i + 1, Len(text)), sep)

\* The place of x in the sequence order.
Pos(order, x) == CHOOSE p \in 1..Len(order) : order[p] = x

\* The elements of keys are elements of order, each at most once and in its order.
InOrder(keys, order) ==
  /\ \A i \in 1..Len(keys) : \E p \in 1..Len(order) : order[p] = keys[i]
  /\ \A i, j \in 1..Len(keys) : i < j => Pos(order, keys[i]) < Pos(order, keys[j])

\* The tokens of a text.
Tokens(text) == {text[i] : i \in 1..Len(text)}

\* What begins the segments of a debug message after the first, in their order.
Labels == <<"source=", "tags=", "details=", "metadata=", "retryable", "debug=", "cause=">>

\* Whether the field that the label or key stands for is set in the node n.
FieldSet(n, label) ==
  CASE label \in {"source=", "source"} -> objs[n].source # ""
    [] label \in {"tags=", "tags"} -> objs[n].tags # <<>>
    [] label \in {"details=", "details"} -> Entries(objs[n].details) > 0
    [] label \in {"metadata=", "metadata"} -> Entries(objs[n].metadata) > 0
    [] label = "retryable" -> objs[n].retryable
    [] label \in {"debug=", "debug"} ->
         objs[n].debugMessage # <<>> /\ objs[n].debugMessage # objs[n].message
    [] label \in {"cause=", "cause"} -> objs[n].cause # NilErr

\* The plain message of the cause c: of an ErrorValue its client message.
PlainMessage(c) ==
  IF c = TypedNil THEN <<>>
  ELSE IF objs[c].shape = "errx" THEN objs[c].message
  ELSE ErrorString(objs, c)

\* The segment of the segments segs that begins with the label.
Segment(segs, label) ==
  segs[CHOOSE i \in 2..Len(segs) : segs[i][1] = label]

ShownTexts(n) ==
  Tokens(objs[n].message)
  \cup (IF objs[n].cause = NilErr THEN {} ELSE Tokens(PlainMessage(objs[n].cause)))
  \cup {k \in StrKeys : maps[objs[n].details][k] # NoVal}
  \cup {maps[objs[n].details][k] : k \in {j \in StrKeys : maps[objs[n].details][j] # NoVal}}

\* The node n has no source, no tags, no metadata and no debug message.
Fresh(n) ==
  /\ objs[n].source = ""
  /\ objs[n].tags = <<>>
  /\ Entries(objs[n].metadata) = 0
  /\ objs[n].debugMessage = <<>>

\* C24, as stated: for every code and every client message the debug message
\* of a node with no source, tags, metadata or debug message has none of
\* "source=", "tags=", "metadata=" and "debug=" in it, and that of a node not
\* marked retryable does not have "retryable" in it.
FreshSummaryHasNoLabels ==
  (last.op = "DebugMessage" /\ last.recv # NilPtr)
  => /\ Fresh(last.recv)
        => Tokens(last.out) \cap {"source=", "tags=", "metadata=", "debug="} = {}
     /\ ~objs[last.recv].retryable => "retryable" \notin Tokens(last.out)

\* C24, amended: the debug message of a node with no source, tags, metadata or
\* debug message has "source=", "tags=", "metadata=" or "debug=" in it only
\* where the client message, the message of the cause or a detail has that
\* text in it; and that of a node not marked retryable has "retryable" in it
\* only where one of the texts the node holds has.
FreshSummaryLabelsOnlyFromTexts ==
  (last.op = "DebugMessage" /\ last.recv # NilPtr)
  => /\ Fresh(last.recv)
        => (Tokens(last.out) \cap {"source=", "tags=", "metadata=", "debug="})
             \subseteq ShownTexts(last.recv)
     /\ (~objs[last.recv].retryable /\ "retryable" \in Tokens(last.out))
        => \/ "retryable" \in ShownTexts(last.recv)
           \/ "retryable" \in Tokens(objs[last.recv].debugMessage)
                                \cup Tokens(objs[last.recv].tags)
                                \cup {objs[last.recv].source}
           \/ \E k \in StrKeys : "retryable" \in {k, maps[objs[last.recv].metadata][k]}

\* The debug message was read of a node that New made and nothing decorated,
\* whose message has none of the labels in it.
SummaryOfFresh ==
  /\ last.op = "DebugMessage"
  /\ last.recv # NilPtr
  /\ Fresh(last.recv)
  /\ ~objs[last.recv].retryable
  /\ objs[last.recv].cause = NilErr
  /\ Tokens(objs[last.recv].message) \cap Tokens(Labels) = {}
  /\ last.out = <<"[", "unknown", "] ">> \o objs[last.recv].message

\* The keys of a log value in their order, and the value under one key.
Keys(v) == [i \in 1..Len(v.attrs) |-> v.attrs[i][1]]

AttrValue(v, key) == v.attrs[CHOOSE i \in 1..Len(v.attrs) : v.attrs[i][1] = key][2]

LogKeys ==
  <<"code", "message", "source", "tags", "details", "metadata", "retryable",
    "debug", "cause">>

\* v is a group for the node n: code and message first, then the keys of the
\* fields that are set and no other, in the fixed order, with the node's own
\* code, message, source and debug message as their values.
GroupFor(n, v) ==
  /\ v.kind = "Group"
  /\ Len(v.attrs) >= 2
  /\ Keys(v)[1] = "code"
  /\ Keys(v)[2] = "message"
  /\ InOrder(Keys(v), LogKeys)
  /\ \A p \in 3..Len(LogKeys) :
       (\E i \in 1..Len(v.attrs) : Keys(v)[i] = LogKeys[p]) <=> FieldSet(n, LogKeys[p])
  /\ AttrValue(v, "code").val = CodeString(objs[n].code)
  /\ AttrValue(v, "message").val = objs[n].message
  /\ FieldSet(n, "source") => AttrValue(v, "source").val = objs[n].source
  /\ FieldSet(n, "tags") => AttrValue(v, "tags").val = objs[n].tags
  /\ FieldSet(n, "retryable") => AttrValue(v, "retryable").val = TRUE
  /\ FieldSet(n, "debug") => AttrValue(v, "debug").val = objs[n].debugMessage

\* v is a group for n, and under its cause there is, for a cause that is an
\* ErrorValue, such a group for the cause, at every level; a cause of another
\* package is under the key as the error it is.
RECURSIVE Nested(_, _)
Nested(n, v) ==
  /\ GroupFor(n, v)
  /\ objs[n].cause \in Present => Nested(objs[n].cause, AttrValue(v, "cause"))
  /\ (objs[n].cause \in 1..Len(objs) /\ objs[n].cause \notin Present)
     => AttrValue(v, "cause") = AnyValue("error", objs[n].cause)

\* C25: LogValue() of a present node is a group with the keys code, message,
\* source, tags, details, metadata, retryable, debug, cause in this order, code
\* and message always and each other key exactly when its field is set (debug
\* only when it differs from the message); a cause that is an ErrorValue is
\* under cause as its own such group, at every level, each level with its own
\* source and message.
LogValueNested ==
  /\ (last.op = "LogValue" /\ last.recv # NilPtr)
     => /\ GroupFor(last.recv, last.out)
        /\ FieldSet(last.recv, "cause")
           => Resolve(objs, maps, AttrValue(last.out, "cause"))
                = Resolve(objs, maps, AnyValue("error", objs[last.recv].cause))
  /\ (last.op = "slog" /\ last.recv # NilPtr) => Nested(last.recv, last.out)

\* A logger wrote an error of three levels: the outer has a source and every
\* other field, the middle one another source, the inner one no source, and
\* the messages of the three differ.
ThreeLevelsLogged ==
  /\ last.op = "slog"
  /\ last.recv \in Present
  /\ \A p \in 3..Len(LogKeys) : FieldSet(last.recv, LogKeys[p])
  /\ LET n2 == objs[last.recv].cause
         v2 == AttrValue(last.out, "cause")
     IN /\ n2 \in Present
        /\ objs[n2].cause \in Present
        /\ objs[n2].source \notin {"", objs[last.recv].source}
        /\ objs[objs[n2].cause].source = ""
        /\ objs[objs[n2].cause].cause = NilErr
        /\ Keys(v2) = <<"code", "message", "source", "retryable", "debug", "cause">>
        /\ Keys(AttrValue(v2, "cause")) = <<"code", "message">>
        /\ AttrValue(AttrValue(v2, "cause"), "message").val = objs[objs[n2].cause].message
        /\ objs[objs[n2].cause].message \notin {objs[n2].message, objs[last.recv].message}
        /\ objs[n2].message # objs[last.recv].message

\* The names and numbers that the tests of Code expect.
ExpectedNames ==
  [n \in 0..15 |->
     CASE n = 0 -> "unknown"            [] n = 1 -> "canceled"
       [] n = 2 -> "invalid_argument"   [] n = 3 -> "deadline_exceeded"
       [] n = 4 -> "not_found"          [] n = 5 -> "already_exists"
       [] n = 6 -> "permission_denied"  [] n = 7 -> "resource_exhausted"
       [] n = 8 -> "failed_precondition" [] n = 9 -> "aborted"
       [] n = 10 -> "out_of_range"      [] n = 11 -> "unimplemented"
       [] n = 12 -> "internal"          [] n = 13 -> "unavailable"
       [] n = 14 -> "data_loss"         [] n = 15 -> "unauthenticated"]

\* C26: the 16 codes have the numbers 0 (unknown) to 15 (unauthenticated) in
\* the declared order, String() gives each its own lowercase snake-case name,
\* no two codes share a name, and String() of any other number n of the type
\* is "Code(n)", which is the name of no code; it never fails.
CodeNamesFixed ==
  /\ CodeUnknown = 0
  /\ CodeNotFound = 4
  /\ Len(CodeNames) = 16
  /\ last.op = "Code.String"
     => /\ last.code \in 0..15 => last.out = ExpectedNames[last.code]
        /\ last.code \notin 0..15
           => /\ last.out = "Code(" \o ToString(last.code) \o ")"
              /\ \A n \in 0..15 : last.out # ExpectedNames[n]
        /\ \A n \in 0..15 : last.out = CodeString(n) => n = last.code
        /\ ~last.panic

\* String() was asked of the value 255, which is the number of no code.
StringOfUndeclared ==
  /\ last.op = "Code.String"
  /\ last.code = 255
  /\ last.out = "Code(255)"

\* C27: the cause of a node is what its constructor gave it: no call changes
\* the cause of a node there is, every cause is nil or was there before the
\* node, so the cause links form no cycle, and the chain of every node is
\* finite: a traversal of it visits no more nodes than there are.
CauseFixedAndAcyclic ==
  /\ \A n \in 1..Len(last.preObjs) :
       n <= Len(objs) /\ objs[n].cause = last.preObjs[n].cause
  /\ \A n \in 1..Len(objs) : objs[n].cause \in {NilErr, TypedNil} \cup (1..(n - 1))
  /\ \A n \in 1..Len(objs) : Len(Chain(objs, n)) <= n

\* A mutator was called on a node that has a cause and is itself the cause of
\* a later node, which is decorated too.
CauseOfDecoratedDecorated ==
  /\ last.op \in Mutators
  /\ last.recv # NilPtr
  /\ objs[last.recv].cause # NilErr
  /\ \E m \in Present :
       /\ objs[m].cause = last.recv
       /\ Decorations(objs, maps, m) > 0

Constructors == {"New", "Newf", "Wrap", "Wrapf", "Ensure", "Ensuref"}

\* The first frames of the stack s, at most maxDepth of them.
Captured(s) == SubSeq(s, 1, IF Len(s) < maxDepth THEN Len(s) ELSE maxDepth)

\* C28: the node that New, Newf, Wrap, Wrapf, or Ensure and Ensuref on their
\* fallback path, return has the stack of the call as its stack trace: its
\* first frame is the caller of the constructor, it has at least one and at
\* most 32 frames, those of the caller's stack in their order; no later call
\* changes the stack trace of a node, and an Ensure that passes an existing
\* node through makes no node and captures nothing.
StackCapturedOnce ==
  /\ \A n \in 1..Len(last.preObjs) :
       n <= Len(objs) /\ objs[n].stackTrace = last.preObjs[n].stackTrace
  /\ last.op \notin Constructors \cup {"none"} => Len(objs) = Len(last.preObjs)
  /\ last.op \in Constructors
     => IF last.ret = Len(last.preObjs) + 1
        THEN /\ Len(objs) = last.ret
             /\ objs[last.ret].stackTrace[1] = "caller"
             /\ Len(objs[last.ret].stackTrace) \in 1..32
             /\ \E s \in DeepStacks \cup CallerStacks :
                  objs[last.ret].stackTrace = Captured(s)
        ELSE /\ objs = last.preObjs
             /\ last.op \in {"Wrap", "Wrapf", "Ensure", "Ensuref"}
             /\ last.op \in {"Wrap", "Wrapf"} => last.ret = NilPtr

\* Ensure made a node on its fallback path when called from a stack deeper
\* than the capture holds, while an earlier node, made from a stack of one
\* frame, was there.
EnsureCapturedDeepStack ==
  /\ last.op = "Ensure"
  /\ last.ret = Len(last.preObjs) + 1
  /\ Len(objs[last.ret].stackTrace) = maxDepth
  /\ objs[last.ret].stackTrace[maxDepth] = "frame"
  /\ \E n \in Present : objs[n].stackTrace = <<"caller">>

\* C29: Ensure(Ensure(err, c1, m1), c2, m2) is the instance that
\* Ensure(err, c1, m1) returned, for every err and all fallback codes: the
\* second application makes no node and changes none, so the two add at most
\* one node, and CodeOf of the result is after the second what it was after
\* the first.
EnsureIdempotent ==
  last.op = "Ensure.Ensure"
  => /\ last.ret = last.out.ret
     /\ objs = last.out.objs
     /\ maps = last.out.maps
     /\ Len(objs) <= Len(last.preObjs) + 1
     /\ CodeOf(objs, PtrToErr(last.ret)) = CodeOf(last.out.objs, PtrToErr(last.out.ret))
     /\ last.ret # NilPtr => objs[last.ret].code = last.out.objs[last.out.ret].code

\* Ensure was applied twice with two different fallback codes to an error of
\* another package: the first made a node, with the first code, and the second
\* returned it.
EnsuredTwiceWithTwoCodes ==
  /\ last.op = "Ensure.Ensure"
  /\ last.codes[1] # last.codes[2]
  /\ last.ret = Len(last.preObjs) + 1
  /\ objs[last.ret].code = last.codes[1]
  /\ objs[last.ret].cause = last.err
  /\ objs[last.err].shape = "wrap"

\* The ErrorValues there were in the chain of err when the call was made.
NodesIn(err) ==
  {i \in 1..Len(Chain(last.preObjs, err)) :
     Chain(last.preObjs, err)[i] \in 1..Len(last.preObjs)
     /\ last.preObjs[Chain(last.preObjs, err)[i]].shape = "errx"}

\* C30: when err is no ErrorValue itself but wraps one, Ensure returns the
\* outermost ErrorValue n of its chain and makes no node, so err and the other
\* wrappers outside n are not in the chain of what is returned: what they
\* added is not kept.
EnsureDropsOuterWrappers ==
  (/\ last.op \in {"Ensure", "Ensuref"}
   /\ last.err \in 1..Len(last.preObjs)
   /\ last.preObjs[last.err].shape # "errx"
   /\ NodesIn(last.err) # {})
  => LET chain == Chain(last.preObjs, last.err)
         i == CHOOSE j \in NodesIn(last.err) : \A k \in NodesIn(last.err) : j <= k
     IN /\ last.ret = chain[i]
        /\ Len(objs) = Len(last.preObjs)
        /\ \A n \in Present : objs[n].cause # last.err
        /\ \A k \in 1..(i - 1), l \in 1..Len(Chain(objs, last.ret)) :
             Chain(objs, last.ret)[l] # chain[k]

\* Ensure was given a wrapper of another package around an ErrorValue that
\* itself wraps an error, and returned that ErrorValue.
EnsureGivenWrapperOfNode ==
  /\ last.op = "Ensure"
  /\ last.err \in 1..Len(objs)
  /\ objs[last.err].shape = "wrap"
  /\ objs[last.err].cause = last.ret
  /\ last.ret \in Present
  /\ objs[last.ret].code # last.code
  /\ Len(objs) < MaxObjs
====
